---- MODULE Spec2Model ----
(***************************************************************************)
(* A model of treecorr/binnedcorr2.py: the BinnedCorr2 constructor (the    *)
(* resolution of the binning parameters and of the traversal tolerance)    *)
(* and the patch-wise accumulation of _process_all_auto and                *)
(* _process_all_cross into self.results.                                   *)
(*                                                                         *)
(* Numbers.  Python floats are modelled as exact rationals <<n, d>> with   *)
(* d > 0 in lowest terms, so rounding is not modelled.  For bin_type Log   *)
(* a separation is a positive real written [ln |-> q], the number e^q with *)
(* q rational: math.log and math.exp move between the two forms, and       *)
(* products and quotients of separations add and subtract the exponents.   *)
(* Log separations are therefore always positive in the model.             *)
(***************************************************************************)
EXTENDS Integers, Sequences, FiniteSets, TLC

VARIABLES
    config,      \* the config dict given to the constructor
    status,      \* "new", "ok", or the error the constructor raised
    corr,        \* the fields __init__ sets on the object
    results,     \* self.results: (i, j) -> the stored result of that patch pair
    total,       \* the object's own accumulators xi, weight, npairs
    temp,        \* the working accumulator of a patch run
    pc,          \* where the running _process_all_* call is
    cat1, cat2,  \* the catalog lists of the current or last call
    ii, jj,      \* the loop positions in cat1 and cat2 (from 1)
    runs,        \* how many _process_all_* calls have returned or raised
    modes,       \* the kinds of calls so far: "single", "pairwise", "patch"
    add_tot,     \* how many times _add_tot was called
    raised,      \* the error of the last _process_all_* call, or ""
    evals,       \* the patch pairs the current or last patch run evaluated
    corrs,       \* the list of objects given to estimate_multi_cov
    method,      \* the method given to estimate_multi_cov, "" before the call
    cov,         \* what estimate_multi_cov returned or raised
    sizes        \* what the last _get_minmax_size call returned

vars == <<config, status, corr, results, total, temp, pc, cat1, cat2, ii, jj,
          runs, modes, add_tot, raised, evals, corrs, method, cov, sizes>>

covVars == <<corrs, method, cov>>

(***************************************************************************)
(* Bounds of the model.                                                    *)
(***************************************************************************)
MaxNbins == 3
MaxBinSizeHalves == 4
MaxSep == 3
MaxSlop == 1
MaxPatch == 2
MaxRuns == 2
MaxCovPatch == 3
MaxStat == 2
MaxBoot == 2

(***************************************************************************)
(* Exact rational arithmetic standing for Python's float arithmetic.       *)
(***************************************************************************)
RECURSIVE Gcd(_, _)
Gcd(a, b) == IF b = 0 THEN a ELSE Gcd(b, a % b)

Abs(x) == IF x < 0 THEN -x ELSE x

\* n/d in lowest terms with a positive denominator (d # 0).
Rat(n, d) ==
    LET g == Gcd(Abs(n), Abs(d))
        s == IF d < 0 THEN -1 ELSE 1
    IN  <<(s * n) \div g, (s * d) \div g>>

Float(x) == <<x, 1>>

RZero == <<0, 1>>

RAdd(a, b) == Rat(a[1] * b[2] + b[1] * a[2], a[2] * b[2])
RSub(a, b) == Rat(a[1] * b[2] - b[1] * a[2], a[2] * b[2])
RMul(a, b) == Rat(a[1] * b[1], a[2] * b[2])
RDiv(a, b) == Rat(a[1] * b[2], a[2] * b[1])
RNeg(a) == <<-a[1], a[2]>>
RLt(a, b) == a[1] * b[2] < b[1] * a[2]
RLe(a, b) == a[1] * b[2] <= b[1] * a[2]
RMin(a, b) == IF RLe(a, b) THEN a ELSE b
RIsZero(a) == a[1] = 0

\* Variant of Ceil that truncates toward zero, as int(a) does.
Ceil_Trunc(a) == IF a[1] >= 0 THEN a[1] \div a[2] ELSE -((-a[1]) \div a[2])

\* int(math.ceil(a)): the least integer >= a.
Ceil(a) == -((-a[1]) \div a[2])

\* Variant of NbinsFromSize that rounds to the nearest integer.
NbinsFromSize_Round(range, bin_size) ==
    Ceil_Trunc(RAdd(RDiv(range, bin_size), <<1, 2>>))

\* Lines 322, 348, 372: nbins = int(math.ceil(range / bin_size)).
NbinsFromSize(range, bin_size) == Ceil(RDiv(range, bin_size))

(***************************************************************************)
(* Positive reals e^q for the Log separations.                             *)
(***************************************************************************)
Exp(q) == [ln |-> q]
Log(x) == x.ln
PMul(x, y) == [ln |-> RAdd(x.ln, y.ln)]
PDiv(x, y) == [ln |-> RSub(x.ln, y.ln)]
PLt(x, y) == RLt(x.ln, y.ln)
PLe(x, y) == RLe(x.ln, y.ln)

\* Comparison of two separations of a given bin_type.
SepLt(bt, x, y) == IF bt = "Log" THEN PLt(x, y) ELSE RLt(x, y)
SepGe(bt, x, y) == ~SepLt(bt, x, y)

\* The error results of the constructor.
Raise(e) == [err |-> e]
Ok(r) == "err" \notin DOMAIN r

\* config.get(key, default)
Get(cfg, key, default) == IF key \in DOMAIN cfg THEN cfg[key] ELSE default

Half == <<1, 2>>
Tenth == <<1, 10>>
One == <<1, 1>>
Two == <<2, 1>>

\* Variant of MinSepMissing that also rejects a min_sep given for TwoD.
MinSepMissing_Strict(cfg) ==
    IF cfg.bin_type = "TwoD" THEN "min_sep" \in DOMAIN cfg
    ELSE "min_sep" \notin DOMAIN cfg

\* Lines 281, 294, 303: min_sep is required unless bin_type is TwoD.
MinSepMissing(cfg) == "min_sep" \notin DOMAIN cfg /\ cfg.bin_type # "TwoD"

\* Variant of BadOrder that lets every order pass.
BadOrder_Unchecked(bt, min_sep, max_sep) == FALSE

\* Lines 287, 298: max_sep must be larger than min_sep.
BadOrder(bt, min_sep, max_sep) == SepGe(bt, min_sep, max_sep)

\* Variant of TooMany that accepts a fourth parameter min_sep.
TooMany_TwoDOnly(cfg) == cfg.bin_type = "TwoD"

\* Lines 310-314: nbins, bin_size and max_sep are all given.
TooMany(cfg) == cfg.bin_type = "TwoD" \/ "min_sep" \in DOMAIN cfg

(***************************************************************************)
(* BinnedCorr2.__init__, lines 278-318: which of nbins, bin_size, min_sep, *)
(* max_sep are in the config.  The result has a field for each parameter   *)
(* that is set; the one left None in the code has no field.                *)
(***************************************************************************)
ParseBinning(cfg) ==
    LET bt == cfg.bin_type
        has(k) == k \in DOMAIN cfg
        min0 == Get(cfg, "min_sep", RZero)
    IN  IF ~has("nbins") THEN
            IF ~has("max_sep") THEN Raise("TypeError")
            ELSE IF MinSepMissing(cfg) THEN Raise("TypeError")
            ELSE IF ~has("bin_size") THEN Raise("TypeError")
            ELSE IF BadOrder(bt, min0, cfg.max_sep) THEN Raise("ValueError")
            ELSE [min_sep |-> min0, max_sep |-> cfg.max_sep,
                  bin_size |-> cfg.bin_size]
        ELSE IF ~has("bin_size") THEN
            IF ~has("max_sep") THEN Raise("TypeError")
            ELSE IF MinSepMissing(cfg) THEN Raise("TypeError")
            ELSE IF BadOrder(bt, min0, cfg.max_sep) THEN Raise("ValueError")
            ELSE [min_sep |-> min0, max_sep |-> cfg.max_sep,
                  nbins |-> cfg.nbins]
        ELSE IF ~has("max_sep") THEN
            IF MinSepMissing(cfg) THEN Raise("TypeError")
            ELSE [min_sep |-> min0, nbins |-> cfg.nbins,
                  bin_size |-> cfg.bin_size]
        ELSE
            IF TooMany(cfg) THEN Raise("TypeError")
            ELSE [max_sep |-> cfg.max_sep, nbins |-> cfg.nbins,
                  bin_size |-> cfg.bin_size]

\* Variant of Linspace with endpoint=True: the last value is stop.
Linspace_Endpoint(start, stop, num) ==
    IF num < 0 THEN Raise("ValueError")
    ELSE [a |-> [k \in 1..num |->
                   IF num = 1 THEN start
                   ELSE RAdd(start, RDiv(RMul(Float(k - 1), RSub(stop, start)),
                                         Float(num - 1)))]]

(***************************************************************************)
(* np.linspace(start, stop, num, endpoint=False): num evenly spaced values *)
(* start + k*(stop-start)/num, k = 0..num-1; a negative num is an error.   *)
(***************************************************************************)
Linspace(start, stop, num) ==
    IF num < 0 THEN Raise("ValueError")
    ELSE [a |-> [k \in 1..num |->
                   RAdd(start, RDiv(RMul(Float(k - 1), RSub(stop, start)),
                                    Float(num)))]]

(***************************************************************************)
(* Lines 320-330: the Log branch derives the parameter that is None.       *)
(***************************************************************************)
DeriveLog(p) ==
    LET has(k) == k \in DOMAIN p
    IN  IF ~has("nbins") THEN
            LET range == Log(PDiv(p.max_sep, p.min_sep))
            IN  IF RIsZero(p.bin_size) THEN Raise("ZeroDivisionError")
                ELSE LET n == NbinsFromSize(range, p.bin_size)
                     IN  IF n = 0 THEN Raise("ZeroDivisionError")
                         ELSE [nbins |-> n, bin_size |-> RDiv(range, Float(n)),
                               min_sep |-> p.min_sep, max_sep |-> p.max_sep]
        ELSE IF ~has("bin_size") THEN
            IF p.nbins = 0 THEN Raise("ZeroDivisionError")
            ELSE [nbins |-> p.nbins,
                  bin_size |-> RDiv(Log(PDiv(p.max_sep, p.min_sep)), Float(p.nbins)),
                  min_sep |-> p.min_sep, max_sep |-> p.max_sep]
        ELSE IF ~has("max_sep") THEN
            [nbins |-> p.nbins, bin_size |-> p.bin_size, min_sep |-> p.min_sep,
             max_sep |-> PMul(Exp(RMul(Float(p.nbins), p.bin_size)), p.min_sep)]
        ELSE
            [nbins |-> p.nbins, bin_size |-> p.bin_size, max_sep |-> p.max_sep,
             min_sep |-> PMul(p.max_sep, Exp(RNeg(RMul(Float(p.nbins), p.bin_size))))]

(***************************************************************************)
(* Lines 332-345: the Log bin centres and edges, and the log bin sizes.    *)
(***************************************************************************)
LayoutLog(q) ==
    LET ls == Linspace(RZero, RMul(Float(q.nbins), q.bin_size), q.nbins)
    IN  IF ~Ok(ls) THEN ls
        ELSE LET off == RAdd(Log(q.min_sep), RMul(Half, q.bin_size))
                 logr == [k \in 1..q.nbins |-> RAdd(ls.a[k], off)]
                 rnom == [k \in 1..q.nbins |-> Exp(logr[k])]
                 half_bin == Exp(RMul(Half, q.bin_size))
             IN  IF RIsZero(q.bin_size) THEN Raise("ZeroDivisionError")
                 ELSE q @@ [logr |-> logr, rnom |-> rnom,
                            left_edges |-> [k \in 1..q.nbins |-> PDiv(rnom[k], half_bin)],
                            right_edges |-> [k \in 1..q.nbins |-> PMul(rnom[k], half_bin)],
                            _nbins |-> q.nbins,
                            min_log_bin_size |-> q.bin_size,
                            max_log_bin_size |-> q.bin_size,
                            max_good_slop |-> RDiv(Tenth, q.bin_size)]

(***************************************************************************)
(* Lines 346-357: the Linear branch derives the parameter that is None.    *)
(***************************************************************************)
DeriveLinear(p) ==
    LET has(k) == k \in DOMAIN p
    IN  IF ~has("nbins") THEN
            LET range == RSub(p.max_sep, p.min_sep)
            IN  IF RIsZero(p.bin_size) THEN Raise("ZeroDivisionError")
                ELSE LET n == NbinsFromSize(range, p.bin_size)
                     IN  IF n = 0 THEN Raise("ZeroDivisionError")
                         ELSE [nbins |-> n, bin_size |-> RDiv(range, Float(n)),
                               min_sep |-> p.min_sep, max_sep |-> p.max_sep]
        ELSE IF ~has("bin_size") THEN
            IF p.nbins = 0 THEN Raise("ZeroDivisionError")
            ELSE [nbins |-> p.nbins,
                  bin_size |-> RDiv(RSub(p.max_sep, p.min_sep), Float(p.nbins)),
                  min_sep |-> p.min_sep, max_sep |-> p.max_sep]
        ELSE IF ~has("max_sep") THEN
            [nbins |-> p.nbins, bin_size |-> p.bin_size, min_sep |-> p.min_sep,
             max_sep |-> RAdd(p.min_sep, RMul(Float(p.nbins), p.bin_size))]
        ELSE
            [nbins |-> p.nbins, bin_size |-> p.bin_size, max_sep |-> p.max_sep,
             min_sep |-> RSub(p.max_sep, RMul(Float(p.nbins), p.bin_size))]

(***************************************************************************)
(* Lines 358-369: the Linear bin centres and edges, and the log bin sizes. *)
(***************************************************************************)
LayoutLinear(q) ==
    LET ls == Linspace(q.min_sep, q.max_sep, q.nbins)
        hb == RMul(Half, q.bin_size)
    IN  IF ~Ok(ls) THEN ls
        ELSE LET rnom == [k \in 1..q.nbins |-> RAdd(ls.a[k], hb)]
                 denom == RAdd(q.min_sep, RDiv(q.bin_size, Two))
             IN  IF RIsZero(q.max_sep) \/ RIsZero(denom) \/ RIsZero(q.bin_size)
                 THEN Raise("ZeroDivisionError")
                 ELSE q @@ [rnom |-> rnom,
                            left_edges |-> [k \in 1..q.nbins |-> RSub(rnom[k], hb)],
                            right_edges |-> [k \in 1..q.nbins |-> RAdd(rnom[k], hb)],
                            _nbins |-> q.nbins,
                            min_log_bin_size |-> RDiv(q.bin_size, q.max_sep),
                            max_log_bin_size |-> RDiv(q.bin_size, denom),
                            max_good_slop |-> RDiv(Tenth, RDiv(q.bin_size, denom))]

\* Variant of DeriveTwoD that keeps the requested bin_size when it derives
\* nbins.
DeriveTwoD_KeepSize(p) ==
    LET has(k) == k \in DOMAIN p
    IN  IF ~has("nbins") THEN
            IF RIsZero(p.bin_size) THEN Raise("ZeroDivisionError")
            ELSE [nbins |-> NbinsFromSize(RMul(Two, p.max_sep), p.bin_size),
                  bin_size |-> p.bin_size,
                  min_sep |-> p.min_sep, max_sep |-> p.max_sep]
        ELSE IF ~has("bin_size") THEN
            IF p.nbins = 0 THEN Raise("ZeroDivisionError")
            ELSE [nbins |-> p.nbins,
                  bin_size |-> RDiv(RMul(Two, p.max_sep), Float(p.nbins)),
                  min_sep |-> p.min_sep, max_sep |-> p.max_sep]
        ELSE
            [nbins |-> p.nbins, bin_size |-> p.bin_size, min_sep |-> p.min_sep,
             max_sep |-> RDiv(RMul(Float(p.nbins), p.bin_size), Two)]

(***************************************************************************)
(* Lines 370-377: the TwoD branch derives the parameter that is None.      *)
(* min_sep is never None here: it is the config's value, or 0.             *)
(***************************************************************************)
DeriveTwoD(p) ==
    LET has(k) == k \in DOMAIN p
    IN  IF ~has("nbins") THEN
            LET range == RMul(Two, p.max_sep)
            IN  IF RIsZero(p.bin_size) THEN Raise("ZeroDivisionError")
                ELSE LET n == NbinsFromSize(range, p.bin_size)
                     IN  IF n = 0 THEN Raise("ZeroDivisionError")
                         ELSE [nbins |-> n, bin_size |-> RDiv(range, Float(n)),
                               min_sep |-> p.min_sep, max_sep |-> p.max_sep]
        ELSE IF ~has("bin_size") THEN
            IF p.nbins = 0 THEN Raise("ZeroDivisionError")
            ELSE [nbins |-> p.nbins,
                  bin_size |-> RDiv(RMul(Two, p.max_sep), Float(p.nbins)),
                  min_sep |-> p.min_sep, max_sep |-> p.max_sep]
        ELSE
            [nbins |-> p.nbins, bin_size |-> p.bin_size, min_sep |-> p.min_sep,
             max_sep |-> RDiv(RMul(Float(p.nbins), p.bin_size), Two)]

\* Variant of LayoutTwoD without the half-bin offset of line 381.
LayoutTwoD_NoOffset(q) ==
    LET ls == Linspace(RNeg(q.max_sep), q.max_sep, q.nbins)
        hb == RMul(Half, q.bin_size)
        N == 1..q.nbins
    IN  IF ~Ok(ls) THEN ls
        ELSE LET sep == [k \in N |-> ls.a[k]]
                 dx == [r \in N |-> [c \in N |-> sep[c]]]
                 dy == [r \in N |-> [c \in N |-> sep[r]]]
                 denom == RAdd(q.min_sep, RDiv(q.bin_size, Two))
             IN  IF RIsZero(q.max_sep) \/ RIsZero(denom) \/ RIsZero(q.bin_size)
                 THEN Raise("ZeroDivisionError")
                 ELSE q @@ [dx |-> dx, dy |-> dy,
                            left_edges |-> [r \in N |-> [c \in N |-> RSub(dx[r][c], hb)]],
                            right_edges |-> [r \in N |-> [c \in N |-> RAdd(dx[r][c], hb)]],
                            bottom_edges |-> [r \in N |-> [c \in N |-> RSub(dy[r][c], hb)]],
                            top_edges |-> [r \in N |-> [c \in N |-> RAdd(dy[r][c], hb)]],
                            rnom_sq |-> [r \in N |-> [c \in N |->
                                RAdd(RMul(dx[r][c], dx[r][c]), RMul(dy[r][c], dy[r][c]))]],
                            _nbins |-> q.nbins * q.nbins,
                            min_log_bin_size |-> RDiv(q.bin_size, q.max_sep),
                            max_log_bin_size |-> RDiv(q.bin_size, denom),
                            max_good_slop |-> RDiv(Tenth, RDiv(q.bin_size, denom))]

(***************************************************************************)
(* Lines 379-395: the TwoD grid.  dx, dy and the four edge arrays are      *)
(* nbins x nbins (a sequence of rows); meshgrid(sep, sep) gives            *)
(* dx[r][c] = sep[c] and dy[r][c] = sep[r].  rnom_sq is rnom squared: the  *)
(* square root is not taken.                                               *)
(***************************************************************************)
LayoutTwoD(q) ==
    LET ls == Linspace(RNeg(q.max_sep), q.max_sep, q.nbins)
        hb == RMul(Half, q.bin_size)
        N == 1..q.nbins
    IN  IF ~Ok(ls) THEN ls
        ELSE LET sep == [k \in N |-> RAdd(ls.a[k], hb)]
                 dx == [r \in N |-> [c \in N |-> sep[c]]]
                 dy == [r \in N |-> [c \in N |-> sep[r]]]
                 denom == RAdd(q.min_sep, RDiv(q.bin_size, Two))
             IN  IF RIsZero(q.max_sep) \/ RIsZero(denom) \/ RIsZero(q.bin_size)
                 THEN Raise("ZeroDivisionError")
                 ELSE q @@ [dx |-> dx, dy |-> dy,
                            left_edges |-> [r \in N |-> [c \in N |-> RSub(dx[r][c], hb)]],
                            right_edges |-> [r \in N |-> [c \in N |-> RAdd(dx[r][c], hb)]],
                            bottom_edges |-> [r \in N |-> [c \in N |-> RSub(dy[r][c], hb)]],
                            top_edges |-> [r \in N |-> [c \in N |-> RAdd(dy[r][c], hb)]],
                            rnom_sq |-> [r \in N |-> [c \in N |->
                                RAdd(RMul(dx[r][c], dx[r][c]), RMul(dy[r][c], dy[r][c]))]],
                            _nbins |-> q.nbins * q.nbins,
                            min_log_bin_size |-> RDiv(q.bin_size, q.max_sep),
                            max_log_bin_size |-> RDiv(q.bin_size, denom),
                            max_good_slop |-> RDiv(Tenth, RDiv(q.bin_size, denom))]

\* Lines 387-390: logr is log(rnom) where rnom > 0 and -inf where rnom is
\* 0.  The cells <<row, column>> of a TwoD grid whose logr is -inf.
LogrNegInf(c) ==
    {rc \in (1..c.nbins) \X (1..c.nbins) : c.rnom_sq[rc[1]][rc[2]] = RZero}

\* Lines 320-397: the branch of the bin_type.
ResolveBins(bt, p) ==
    LET q == CASE bt = "Log" -> DeriveLog(p)
               [] bt = "Linear" -> DeriveLinear(p)
               [] bt = "TwoD" -> DeriveTwoD(p)
    IN  IF ~Ok(q) THEN q
        ELSE CASE bt = "Log" -> LayoutLog(q)
               [] bt = "Linear" -> LayoutLinear(q)
               [] bt = "TwoD" -> LayoutTwoD(q)

\* sep_units is not given: the unit factor _sep_units is that of radians.
SepUnits == One

\* 0.0001, the numerical slop of line 425.
SlopEps == <<1, 10000>>

\* Variant of Tolerance that multiplies bin_slop by the maximum log bin size.
Tolerance_MaxLog(bt, q, cfg) ==
    LET given == Get(cfg, "bin_slop", <<-1, 1>>)
        bin_slop == IF RLt(given, RZero) THEN RMin(q.max_good_slop, One) ELSE given
    IN  [bin_slop |-> bin_slop,
         b |-> RMul(q.max_log_bin_size, bin_slop),
         warned |-> RLt(RAdd(q.max_good_slop, SlopEps), bin_slop),
         _bin_size |-> IF bt \in {"Linear", "TwoD"}
                       THEN RMul(q.bin_size, SepUnits) ELSE q.bin_size]

\* Variant of Tolerance that replaces a bin_slop above the recommended bound
\* by the bound.
Tolerance_Clamped(bt, q, cfg) ==
    LET given == Get(cfg, "bin_slop", <<-1, 1>>)
        bin_slop == IF RLt(given, RZero) \/ RLt(q.max_good_slop, given)
                    THEN RMin(q.max_good_slop, One) ELSE given
    IN  [bin_slop |-> bin_slop,
         b |-> RMul(q.min_log_bin_size, bin_slop),
         warned |-> RLt(RAdd(q.max_good_slop, SlopEps), given),
         _bin_size |-> IF bt \in {"Linear", "TwoD"}
                       THEN RMul(q.bin_size, SepUnits) ELSE q.bin_size]

(***************************************************************************)
(* Lines 407-431: the values in natural units, bin_slop and b.  warned     *)
(* records that the warning of line 426 was logged.                        *)
(***************************************************************************)
Tolerance(bt, q, cfg) ==
    LET min_log_bin_size == IF bt \in {"Linear", "TwoD"}
                            THEN RMul(q.min_log_bin_size, SepUnits)
                            ELSE q.min_log_bin_size
        given == Get(cfg, "bin_slop", <<-1, 1>>)
        bin_slop == IF RLt(given, RZero) THEN RMin(q.max_good_slop, One) ELSE given
    IN  [bin_slop |-> bin_slop,
         b |-> RMul(min_log_bin_size, bin_slop),
         warned |-> RLt(RAdd(q.max_good_slop, SlopEps), bin_slop),
         _bin_size |-> IF bt \in {"Linear", "TwoD"}
                       THEN RMul(q.bin_size, SepUnits) ELSE q.bin_size]

\* sys.float_info.max: larger than every rpar of the model.
FloatMax == 1000000

\* Lines 441-444: min_rpar and max_rpar.
Rpar(cfg) ==
    LET min_rpar == Get(cfg, "min_rpar", -FloatMax)
        max_rpar == Get(cfg, "max_rpar", FloatMax)
    IN  IF min_rpar > max_rpar THEN Raise("ValueError")
        ELSE [min_rpar |-> min_rpar, max_rpar |-> max_rpar]

(***************************************************************************)
(* BinnedCorr2.__init__: the object's fields, or the error raised.         *)
(***************************************************************************)
Constructor(cfg) ==
    LET bt == cfg.bin_type
        p == ParseBinning(cfg)
    IN  IF ~Ok(p) THEN p
        ELSE LET q == ResolveBins(bt, p)
             IN  IF ~Ok(q) THEN q
                 ELSE LET r == Rpar(cfg)
                      IN  IF ~Ok(r) THEN r
                          ELSE [bin_type |-> bt] @@ q @@ Tolerance(bt, q, cfg) @@ r
                               @@ [metric |-> "None"]

(***************************************************************************)
(* The configurations: any subset of the keys, with values from small sets.*)
(***************************************************************************)
BinTypes == {"Log", "Linear", "TwoD"}
NbinsVals == -1..MaxNbins
BinSizeVals == {Rat(k, 2) : k \in 0..MaxBinSizeHalves}
SepVals(bt) == IF bt = "Log" THEN {Exp(Float(k)) : k \in 0..MaxSep}
               ELSE {Float(k) : k \in 0..MaxSep}
\* A bin_slop just above 0.1, within the numerical slop of line 425.
SlopNear == <<10001, 100000>>
SlopVals == {RNeg(One), RZero, Tenth, SlopNear} \cup {Float(k) : k \in 1..MaxSlop}
\* The configs that give key k no value, or one of the values V.
Opt(k, V) == {[x \in {} |-> 0]} \cup {(k :> v) : v \in V}

\* min_rpar and max_rpar: neither, one, or both with min_rpar > max_rpar.
RparOpts == {[x \in {} |-> 0], ("min_rpar" :> 0),
             ("min_rpar" :> 1) @@ ("max_rpar" :> 0)}

IsConfig(cfg) ==
    \E bt \in BinTypes :
        \E a \in Opt("nbins", NbinsVals), b \in Opt("bin_size", BinSizeVals),
           c \in Opt("min_sep", SepVals(bt)), d \in Opt("max_sep", SepVals(bt)),
           e \in Opt("bin_slop", SlopVals), f \in RparOpts :
            cfg = [bin_type |-> bt] @@ a @@ b @@ c @@ d @@ e @@ f


(***************************************************************************)
(* The accumulators of a correlation object (the arrays xi, weight and     *)
(* npairs of the derived classes) and their clear, += and copy.            *)
(***************************************************************************)
Zeros(n) == [k \in 1..n |-> 0]

NewAccum(n) == [xi |-> Zeros(n), weight |-> Zeros(n), npairs |-> Zeros(n)]

Clear(r) == [xi |-> Zeros(Len(r.xi)), weight |-> Zeros(Len(r.weight)),
             npairs |-> Zeros(Len(r.npairs))]

VAdd(a, b) == [k \in DOMAIN a |-> a[k] + b[k]]

Merge(a, b) == [xi |-> VAdd(a.xi, b.xi), weight |-> VAdd(a.weight, b.weight),
                npairs |-> VAdd(a.npairs, b.npairs)]

Copy(r) == r

RECURSIVE MergeAll(_, _)
\* The elementwise sum of every result stored in res (vectors of length n).
MergeAll(res, n) ==
    IF DOMAIN res = {} THEN NewAccum(n)
    ELSE LET k == CHOOSE x \in DOMAIN res : TRUE
         IN  Merge(MergeAll([x \in (DOMAIN res) \ {k} |-> res[x]], n), res[k])

\* np.sum over a vector.
RECURSIVE NpSum(_)
NpSum(v) == IF v = <<>> THEN 0 ELSE Head(v) + NpSum(Tail(v))

(***************************************************************************)
(* What process_auto or process_cross adds to the accumulator for one      *)
(* patch pair: nothing, pairs with weight and a signal in every bin, or    *)
(* pairs whose weights are all zero.                                       *)
(***************************************************************************)
Outcomes(n) ==
    { NewAccum(n),
      [xi |-> [k \in 1..n |-> 2 * k - 3], weight |-> [k \in 1..n |-> k],
       npairs |-> [k \in 1..n |-> k]],
      [xi |-> Zeros(n), weight |-> Zeros(n), npairs |-> [k \in 1..n |-> 1]] }

(***************************************************************************)
(* Catalog lists: 1..MaxPatch catalogs, either all with distinct patch     *)
(* numbers below MaxPatch or all without a patch number.  ntot is the      *)
(* number of objects of a catalog.                                         *)
(***************************************************************************)
PatchIds == 0..(MaxPatch - 1)

CatLists ==
    UNION { { [k \in 1..n |-> [patch |-> f[k], ntot |-> f[k] + 1]] :
                f \in {g \in [1..n -> PatchIds] :
                         \A a, b \in 1..n : a # b => g[a] # g[b]} }
            \cup { [k \in 1..n |-> [ntot |-> 1]] }
            : n \in 1..MaxPatch }

\* Lines 465, 472, 498, 500: c.patch if c.patch is not None else the index.
PatchOf(cat, k) == IF "patch" \in DOMAIN cat[k] THEN cat[k].patch ELSE k - 1

\* self.results[key] = value
Store(res, key, value) ==
    [k \in (DOMAIN res) \cup {key} |-> IF k = key THEN value ELSE res[k]]

\* Variant of StoreAndAdd that stores temp itself, not a copy: every entry
\* of the store is then the one working accumulator and shows what it holds.
StoreAndAdd_Aliased(res, tot, key, t) ==
    [results |-> [k \in (DOMAIN res) \cup {key} |-> t], total |-> Merge(tot, t)]

\* Variant of StoreAndAdd that stores the result and leaves self as it is.
StoreAndAdd_NoAdd(res, tot, key, t) ==
    [results |-> Store(res, key, Copy(t)), total |-> tot]

\* Variant of StoreAndAdd that adds the result to the entry a key already has.
StoreAndAdd_Merging(res, tot, key, t) ==
    [results |-> Store(res, key, IF key \in DOMAIN res THEN Merge(res[key], t)
                                 ELSE Copy(t)),
     total |-> Merge(tot, t)]

\* Lines 469-470, 478-479, 505-506:
\*     self.results[(i,j)] = temp.copy(); self += temp
StoreAndAdd(res, tot, key, t) ==
    [results |-> Store(res, key, Copy(t)), total |-> Merge(tot, t)]

NoObject == [none |-> TRUE]

\* One evaluation of a patch run: process_auto or process_cross on the
\* patches i and j, what temp held after it, and whether that was stored
\* and added to self (otherwise it went to _add_tot).
Eval(op, i, j, result, stored) ==
    [op |-> op, i |-> i, j |-> j, result |-> result, stored |-> stored]
NoResults == [k \in {} |-> 0]

InitRest ==
    /\ status = "new"
    /\ corr = NoObject
    /\ results = NoResults
    /\ total = NoObject
    /\ temp = NoObject
    /\ pc = "idle"
    /\ cat1 = <<>> /\ cat2 = <<>>
    /\ ii = 0 /\ jj = 0
    /\ runs = 0
    /\ modes = {}
    /\ add_tot = 0
    /\ raised = ""
    /\ evals = <<>>
    /\ sizes = NoObject

\* No estimate_multi_cov call is modelled.
NoCov == corrs = <<>> /\ method = "" /\ cov = NoObject

Init == IsConfig(config) /\ InitRest /\ NoCov

\* corr = BinnedCorr2(config), with the accumulators of the derived class.
Construct ==
    /\ status = "new"
    /\ LET c == Constructor(config)
       IN  IF Ok(c) THEN /\ status' = "ok" /\ corr' = c
                         /\ total' = NewAccum(c._nbins)
           ELSE status' = c.err /\ corr' = NoObject /\ total' = NoObject
    /\ results' = NoResults
    /\ UNCHANGED <<covVars, sizes>>
    /\ UNCHANGED <<config, temp, pc, cat1, cat2, ii, jj, runs, modes, add_tot, raised,
                   evals>>

Idle == status = "ok" /\ pc = "idle" /\ runs < MaxRuns

(***************************************************************************)
(* _process_all_auto(cat1), lines 458-482.  A single catalog is processed  *)
(* straight into self (line 460).  Otherwise the call runs the outer loop  *)
(* (AutoPatch, lines 464-470) and the inner loop (AutoPair, lines 471-482) *)
(* one iteration per step.                                                 *)
(***************************************************************************)
StartAuto(c) ==
    /\ Idle
    /\ cat1' = c /\ cat2' = <<>> /\ raised' = ""
    /\ IF Len(c) = 1
       THEN /\ \E out \in Outcomes(corr._nbins) : total' = Merge(total, out)
            /\ runs' = runs + 1
            /\ modes' = modes \cup {"single"}
            /\ UNCHANGED <<temp, pc, ii, jj>>
       ELSE /\ temp' = Copy(total)
            /\ pc' = "auto_i" /\ ii' = 1 /\ jj' = 0
            /\ UNCHANGED <<total, runs, modes>>
    /\ evals' = <<>>
    /\ UNCHANGED <<covVars, sizes>>
    /\ UNCHANGED <<config, status, corr, results, add_tot>>

AutoPatch ==
    /\ pc = "auto_i"
    /\ \E out \in Outcomes(corr._nbins) :
          LET i == PatchOf(cat1, ii)
              t == Merge(Clear(temp), out)
              sa == StoreAndAdd(results, total, <<i, i>>, t)
          IN  /\ temp' = t /\ results' = sa.results /\ total' = sa.total
              /\ evals' = Append(evals, Eval("auto", i, i, t, TRUE))
    /\ pc' = "auto_j" /\ jj' = 1
    /\ UNCHANGED <<covVars, sizes>>
    /\ UNCHANGED <<config, status, corr, cat1, cat2, ii, runs, modes, add_tot, raised>>

\* Variant of AutoPair that evaluates a pair of distinct patches in both orders.
AutoPair_BothOrders ==
    /\ pc = "auto_j"
    /\ LET i == PatchOf(cat1, ii)
           j == PatchOf(cat1, jj)
           last == jj = Len(cat1) /\ ii = Len(cat1)
       IN  /\ IF i # j
              THEN \E out \in Outcomes(corr._nbins) :
                     LET t == Merge(Clear(temp), out)
                         sa == StoreAndAdd(results, total, <<i, j>>, t)
                     IN  /\ temp' = IF last THEN NoObject ELSE t
                         /\ evals' = Append(evals,
                                        Eval("cross", i, j, t, NpSum(t.npairs) > 0))
                         /\ IF NpSum(t.npairs) > 0
                            THEN /\ results' = sa.results /\ total' = sa.total
                                 /\ add_tot' = add_tot
                            ELSE /\ add_tot' = add_tot + 1
                                 /\ UNCHANGED <<results, total>>
              ELSE /\ temp' = IF last THEN NoObject ELSE temp
                   /\ UNCHANGED <<results, total, add_tot, evals>>
           /\ IF jj < Len(cat1)
              THEN jj' = jj + 1 /\ UNCHANGED <<ii, pc, runs, modes>>
              ELSE IF ii < Len(cat1)
              THEN ii' = ii + 1 /\ jj' = 0 /\ pc' = "auto_i" /\ UNCHANGED <<runs, modes>>
              ELSE /\ ii' = 0 /\ jj' = 0 /\ pc' = "idle"
                   /\ runs' = runs + 1 /\ modes' = modes \cup {"patch"}
    /\ UNCHANGED <<covVars, sizes>>
    /\ UNCHANGED <<config, status, corr, cat1, cat2, raised>>

AutoPair ==
    /\ pc = "auto_j"
    /\ LET i == PatchOf(cat1, ii)
           j == PatchOf(cat1, jj)
           last == jj = Len(cat1) /\ ii = Len(cat1)
       IN  /\ IF i < j
              THEN \E out \in Outcomes(corr._nbins) :
                     LET t == Merge(Clear(temp), out)
                         sa == StoreAndAdd(results, total, <<i, j>>, t)
                     IN  /\ temp' = IF last THEN NoObject ELSE t
                         /\ evals' = Append(evals,
                                        Eval("cross", i, j, t, NpSum(t.npairs) > 0))
                         /\ IF NpSum(t.npairs) > 0
                            THEN /\ results' = sa.results /\ total' = sa.total
                                 /\ add_tot' = add_tot
                            ELSE /\ add_tot' = add_tot + 1
                                 /\ UNCHANGED <<results, total>>
              ELSE /\ temp' = IF last THEN NoObject ELSE temp
                   /\ UNCHANGED <<results, total, add_tot, evals>>
           /\ IF jj < Len(cat1)
              THEN jj' = jj + 1 /\ UNCHANGED <<ii, pc, runs, modes>>
              ELSE IF ii < Len(cat1)
              THEN ii' = ii + 1 /\ jj' = 0 /\ pc' = "auto_i" /\ UNCHANGED <<runs, modes>>
              ELSE /\ ii' = 0 /\ jj' = 0 /\ pc' = "idle"
                   /\ runs' = runs + 1 /\ modes' = modes \cup {"patch"}
    /\ UNCHANGED <<covVars, sizes>>
    /\ UNCHANGED <<config, status, corr, cat1, cat2, raised>>

\* self after process_pairwise on the first n pairs of the two lists.
RECURSIVE AddFirst(_, _, _)
AddFirst(tot, outs, n) ==
    IF n = 0 THEN tot ELSE Merge(AddFirst(tot, outs, n - 1), outs[n])

(***************************************************************************)
(* _process_all_cross(cat1, cat2), lines 484-509.  The pairwise branch     *)
(* (lines 485-491) and the single-catalog branch (lines 492-493) are done  *)
(* in the first step; the patch loop (CrossPair, lines 497-509) runs one   *)
(* iteration per step.                                                     *)
(***************************************************************************)
StartCross(c, d) ==
    /\ Idle
    /\ cat1' = c /\ cat2' = d
    /\ IF Get(config, "pairwise", FALSE)
       THEN /\ IF Len(c) # Len(d)
               THEN raised' = "ValueError" /\ UNCHANGED <<total, modes>>
               ELSE LET bad == {k \in 1..Len(c) : c[k].ntot # d[k].ntot}
                        done == IF bad = {} THEN Len(c)
                                ELSE (CHOOSE k \in bad : \A m \in bad : k <= m) - 1
                    IN  /\ \E outs \in [1..done -> Outcomes(corr._nbins)] :
                               total' = AddFirst(total, outs, done)
                        /\ raised' = IF bad = {} THEN "" ELSE "ValueError"
                        /\ modes' = modes \cup {"pairwise"}
            /\ runs' = runs + 1
            /\ UNCHANGED <<temp, pc, ii, jj>>
       ELSE IF Len(c) = 1 /\ Len(d) = 1
       THEN /\ \E out \in Outcomes(corr._nbins) : total' = Merge(total, out)
            /\ runs' = runs + 1 /\ raised' = ""
            /\ modes' = modes \cup {"single"}
            /\ UNCHANGED <<temp, pc, ii, jj>>
       ELSE /\ temp' = Copy(total)
            /\ pc' = "cross" /\ ii' = 1 /\ jj' = 1 /\ raised' = ""
            /\ UNCHANGED <<total, runs, modes>>
    /\ evals' = <<>>
    /\ UNCHANGED <<covVars, sizes>>
    /\ UNCHANGED <<config, status, corr, results, add_tot>>

\* Variant of CrossPair that applies the skip-empty rule to the diagonal too.
CrossPair_SkipEmptyDiagonal ==
    /\ pc = "cross"
    /\ LET i == PatchOf(cat1, ii)
           j == PatchOf(cat2, jj)
           last == jj = Len(cat2) /\ ii = Len(cat1)
       IN  /\ \E out \in Outcomes(corr._nbins) :
                 LET t == Merge(Clear(temp), out)
                     sa == StoreAndAdd(results, total, <<i, j>>, t)
                 IN  /\ temp' = IF last THEN NoObject ELSE t
                     /\ evals' = Append(evals,
                                    Eval("cross", i, j, t, NpSum(t.npairs) > 0))
                     /\ IF NpSum(t.npairs) > 0
                        THEN /\ results' = sa.results /\ total' = sa.total
                             /\ add_tot' = add_tot
                        ELSE /\ add_tot' = add_tot + 1
                             /\ UNCHANGED <<results, total>>
           /\ IF jj < Len(cat2)
              THEN jj' = jj + 1 /\ UNCHANGED <<ii, pc, runs, modes>>
              ELSE IF ii < Len(cat1)
              THEN ii' = ii + 1 /\ jj' = 1 /\ UNCHANGED <<pc, runs, modes>>
              ELSE /\ ii' = 0 /\ jj' = 0 /\ pc' = "idle"
                   /\ runs' = runs + 1 /\ modes' = modes \cup {"patch"}
    /\ UNCHANGED <<covVars, sizes>>
    /\ UNCHANGED <<config, status, corr, cat1, cat2, raised>>

CrossPair ==
    /\ pc = "cross"
    /\ LET i == PatchOf(cat1, ii)
           j == PatchOf(cat2, jj)
           last == jj = Len(cat2) /\ ii = Len(cat1)
       IN  /\ \E out \in Outcomes(corr._nbins) :
                 LET t == Merge(Clear(temp), out)
                     sa == StoreAndAdd(results, total, <<i, j>>, t)
                 IN  /\ temp' = IF last THEN NoObject ELSE t
                     /\ evals' = Append(evals,
                                    Eval("cross", i, j, t, i = j \/ NpSum(t.npairs) > 0))
                     /\ IF i = j \/ NpSum(t.npairs) > 0
                        THEN /\ results' = sa.results /\ total' = sa.total
                             /\ add_tot' = add_tot
                        ELSE /\ add_tot' = add_tot + 1
                             /\ UNCHANGED <<results, total>>
           /\ IF jj < Len(cat2)
              THEN jj' = jj + 1 /\ UNCHANGED <<ii, pc, runs, modes>>
              ELSE IF ii < Len(cat1)
              THEN ii' = ii + 1 /\ jj' = 1 /\ UNCHANGED <<pc, runs, modes>>
              ELSE /\ ii' = 0 /\ jj' = 0 /\ pc' = "idle"
                   /\ runs' = runs + 1 /\ modes' = modes \cup {"patch"}
    /\ UNCHANGED <<covVars, sizes>>
    /\ UNCHANGED <<config, status, corr, cat1, cat2, raised>>

Next == Construct

Spec == Init /\ [][Next]_vars

(***************************************************************************)
(* The accumulation runs on one object: two Linear bins, with and without  *)
(* the pairwise option.                                                    *)
(***************************************************************************)
AccConfigs ==
    { [bin_type |-> "Linear", nbins |-> 2, min_sep |-> Float(1), max_sep |-> Float(3)] @@ o :
        o \in Opt("pairwise", {TRUE}) }

InitAcc == config \in AccConfigs /\ InitRest /\ NoCov

NextAcc ==
    \/ Construct
    \/ \E c \in CatLists : StartAuto(c)
    \/ AutoPatch
    \/ AutoPair
    \/ \E c, d \in CatLists : StartCross(c, d)
    \/ CrossPair

SpecAcc == InitAcc /\ [][NextAcc]_vars

(***************************************************************************)
(* estimate_multi_cov, lines 743-1007.                                     *)
(*                                                                         *)
(* Numbers.  The entries of the numpy arrays are exact rationals, or NaN,  *)
(* which stands for every value that is not finite (inf, -inf, nan): a     *)
(* numpy division by zero gives such a value and a warning, not an         *)
(* exception, and every operation on such a value gives such a value.      *)
(***************************************************************************)
NaN == <<0, 0>>
IsNaN(x) == x[2] = 0

\* The sum and the product of two rationals, cancelling common factors
\* before multiplying.
SumOf(a, b) ==
    LET g == Gcd(a[2], b[2])
    IN  Rat(a[1] * (b[2] \div g) + b[1] * (a[2] \div g), (a[2] \div g) * b[2])

ProductOf(a, b) ==
    LET g == Gcd(Abs(a[1]), b[2])
        h == Gcd(Abs(b[1]), a[2])
    IN  Rat((a[1] \div g) * (b[1] \div h), (a[2] \div h) * (b[2] \div g))

FAdd(a, b) == IF IsNaN(a) \/ IsNaN(b) THEN NaN ELSE SumOf(a, b)
FSub(a, b) == IF IsNaN(a) \/ IsNaN(b) THEN NaN ELSE SumOf(a, RNeg(b))
FMul(a, b) == IF IsNaN(a) \/ IsNaN(b) THEN NaN ELSE ProductOf(a, b)
FDiv(a, b) ==
    IF IsNaN(a) \/ IsNaN(b) \/ RIsZero(b) THEN NaN
    ELSE ProductOf(a, IF b[1] < 0 THEN <<-b[2], -b[1]>> ELSE <<b[2], b[1]>>)

\* The sequence F(1), ..., F(n): an array filled row by row (lines 813-817).
RECURSIVE Table(_, _)
Table(F(_), n) == IF n = 0 THEN <<>> ELSE Append(Table(F, n - 1), F(n))

\* The sum of F(k) over k in 1..n: np.sum, np.mean and dot (lines 872-874).
RECURSIVE FSum(_, _)
FSum(F(_), n) == IF n = 0 THEN RZero ELSE FAdd(FSum(F, n - 1), F(n))

\* np.hstack of a list of row vectors: one row.
RECURSIVE Concat(_)
Concat(rows) == IF rows = <<>> THEN <<>> ELSE Head(rows) \o Concat(Tail(rows))

\* The accessors of the derived classes.
GetStat(r) == r.xi
GetWeight(r) == r.weight
GetStatLen(c) == Len(c.total.xi)

(***************************************************************************)
(* A sample of a design matrix is a list of keys; the sums over it do not  *)
(* depend on its order, so it is kept as a bag: key -> how many times.     *)
(***************************************************************************)
NoKeys == [k \in {} |-> 0]
SetBag(S) == [k \in S |-> 1]

\* The elementwise sum of count * pick(results[key]) over the bag's keys
\* (vectors of length n): np.sum([...], axis=0), 0.0 for an empty list.
RECURSIVE BagSum(_, _, _, _)
BagSum(bag, res, pick(_), n) ==
    IF DOMAIN bag = {} THEN Zeros(n)
    ELSE LET k == CHOOSE x \in DOMAIN bag : TRUE
             rest == BagSum([x \in (DOMAIN bag) \ {k} |-> bag[x]], res, pick, n)
             this == pick(res[k])
         IN  Table(LAMBDA b : rest[b] + bag[k] * this[b], n)

(***************************************************************************)
(* _make_cov_design_matrix(corr, all_pairs), lines 810-818: one row of     *)
(* vnum and of vdenom per sample; corr.results[(j,k)] raises KeyError for  *)
(* a key that is not stored.                                               *)
(***************************************************************************)
MakeCovDesignMatrix(c, vpairs) ==
    LET vsize == GetStatLen(c)
    IN  IF \E s \in 1..Len(vpairs) : ~(DOMAIN vpairs[s] \subseteq DOMAIN c.results)
        THEN Raise("KeyError")
        ELSE [vnum |-> Table(LAMBDA s : BagSum(vpairs[s], c.results, GetStat, vsize),
                             Len(vpairs)),
              vdenom |-> Table(LAMBDA s : BagSum(vpairs[s], c.results, GetWeight, vsize),
                               Len(vpairs))]

FirstNums(pairs) == {p[1] : p \in pairs}
SecondNums(pairs) == {p[2] : p \in pairs}
Max(a, b) == IF a >= b THEN a ELSE b

\* Variant of GetPatchNums without the checks of the patch counts (lines
\* 830-831 and 840-841).
GetPatchNums_NoCountCheck(cs) ==
    LET pairs == DOMAIN cs[1].results
        npatch1 == Cardinality(FirstNums(pairs))
        npatch2 == Cardinality(SecondNums(pairs))
        n1(k) == Cardinality(FirstNums(DOMAIN cs[k].results))
        n2(k) == Cardinality(SecondNums(DOMAIN cs[k].results))
    IN  IF pairs = {} THEN Raise("ValueError")
        ELSE IF FirstNums(pairs) # 0..(npatch1 - 1) THEN Raise("AssertionError")
        ELSE IF SecondNums(pairs) # 0..(npatch2 - 1) THEN Raise("AssertionError")
        ELSE [npatch |-> Max(npatch1, npatch2),
              npatch1 |-> [k \in 1..Len(cs) |-> n1(k)],
              npatch2 |-> [k \in 1..Len(cs) |-> n2(k)],
              all_pairs |-> [k \in 1..Len(cs) |-> DOMAIN cs[k].results]]

(***************************************************************************)
(* _get_patch_nums(corrs), lines 820-845.  pairs is the key set of an      *)
(* object; npatch1 and npatch2 of the first object are checked by the      *)
(* asserts of lines 828-829, those of the later objects only counted.      *)
(***************************************************************************)
GetPatchNums(cs) ==
    LET pairs == DOMAIN cs[1].results
        npatch1 == Cardinality(FirstNums(pairs))
        npatch2 == Cardinality(SecondNums(pairs))
        npatch == Max(npatch1, npatch2)
        n1(k) == Cardinality(FirstNums(DOMAIN cs[k].results))
        n2(k) == Cardinality(SecondNums(DOMAIN cs[k].results))
    IN  IF pairs = {} THEN Raise("ValueError")
        ELSE IF FirstNums(pairs) # 0..(npatch1 - 1) THEN Raise("AssertionError")
        ELSE IF SecondNums(pairs) # 0..(npatch2 - 1) THEN Raise("AssertionError")
        ELSE IF npatch1 # npatch2 /\ npatch1 # 1 /\ npatch2 # 1
             THEN Raise("RuntimeError")
        ELSE IF \E k \in 2..Len(cs) : n1(k) \notin {1, npatch} \/ n2(k) \notin {1, npatch}
             THEN Raise("ValueError")
        ELSE [npatch |-> npatch,
              npatch1 |-> [k \in 1..Len(cs) |-> IF k = 1 THEN npatch1 ELSE n1(k)],
              npatch2 |-> [k \in 1..Len(cs) |-> IF k = 1 THEN npatch2 ELSE n2(k)],
              all_pairs |-> [k \in 1..Len(cs) |-> DOMAIN cs[k].results]]

(***************************************************************************)
(* The samples (vpairs) of one object.  Sample s of the model is sample    *)
(* i = s - 1 of the code.                                                  *)
(***************************************************************************)
\* Lines 860-866: jackknife sample i leaves patch i out.
JackknifePairs(n1, n2, pairs) ==
    IF n2 = 1
    THEN [s \in 1..n1 |-> SetBag({<<j, 0>> : j \in (0..(n1 - 1)) \ {s - 1}})]
    ELSE IF n1 = 1
    THEN [s \in 1..n2 |-> SetBag({<<0, j>> : j \in (0..(n2 - 1)) \ {s - 1}})]
    ELSE [s \in 1..n1 |-> SetBag({p \in pairs : p[1] # s - 1 /\ p[2] # s - 1})]

\* Variant of SamplePairs with the selection of line 903: the pairs with
\* either index i.
SamplePairs_EitherIndex(n1, n2, pairs) ==
    IF n2 = 1
    THEN [s \in 1..n1 |-> SetBag({<<s - 1, 0>>})]
    ELSE IF n1 = 1
    THEN [s \in 1..n2 |-> SetBag({<<0, s - 1>>})]
    ELSE [s \in 1..n1 |-> SetBag({p \in pairs : p[1] = s - 1 \/ p[2] = s - 1})]

\* Lines 893-905 and 936-944: sample i is patch i with its partners.
SamplePairs(n1, n2, pairs) ==
    IF n2 = 1
    THEN [s \in 1..n1 |-> SetBag({<<s - 1, 0>>})]
    ELSE IF n1 = 1
    THEN [s \in 1..n2 |-> SetBag({<<0, s - 1>>})]
    ELSE [s \in 1..n1 |-> SetBag({p \in pairs : p[1] = s - 1})]

\* Lines 984-997: the keys of one bootstrap2 resample.  indx is the draw
\* np.random.randint(npatch, size=npatch), kept as patch -> how many times
\* it was drawn.
Drawn(indx) == {i \in DOMAIN indx : indx[i] > 0}

\* Variant of Bootstrap2Pairs that takes a cross key once when both its
\* patches were drawn, however often.
Bootstrap2Pairs_ByPresence(n1, n2, pairs, indx) ==
    IF n2 = 1
    THEN [k \in {<<i, 0>> : i \in Drawn(indx)} |-> indx[k[1]]]
    ELSE IF n1 = 1
    THEN [k \in {<<0, i>> : i \in Drawn(indx)} |-> indx[k[2]]]
    ELSE [k \in {<<i, i>> : i \in Drawn(indx)}
                \cup {p \in pairs : /\ p[1] # p[2]
                                    /\ p[1] \in Drawn(indx) /\ p[2] \in Drawn(indx)}
            |-> IF k[1] = k[2] THEN indx[k[1]] ELSE 1]

Bootstrap2Pairs(n1, n2, pairs, indx) ==
    IF n2 = 1
    THEN [k \in {<<i, 0>> : i \in Drawn(indx)} |-> indx[k[1]]]
    ELSE IF n1 = 1
    THEN [k \in {<<0, i>> : i \in Drawn(indx)} |-> indx[k[2]]]
    ELSE [k \in {<<i, i>> : i \in Drawn(indx)}
                \cup {p \in pairs : /\ p[1] # p[2]
                                    /\ p[1] \in Drawn(indx) /\ p[2] \in Drawn(indx)}
            |-> IF k[1] = k[2] THEN indx[k[1]] ELSE indx[k[1]] * indx[k[2]]]

(***************************************************************************)
(* The matrices.  A design matrix pair is kept per object; np.hstack puts  *)
(* the objects side by side and raises ValueError when their numbers of    *)
(* rows differ.                                                            *)
(***************************************************************************)
\* The rows vnum / vdenom of the stacked design matrices ds.
Ratios(ds) ==
    Table(LAMBDA s :
            Concat(Table(LAMBDA k :
                           Table(LAMBDA b : FDiv(Float(ds[k].vnum[s][b]),
                                                 Float(ds[k].vdenom[s][b])),
                                 Len(ds[k].vnum[s])),
                         Len(ds))),
          Len(ds[1].vnum))

\* v -= np.mean(v, axis=0)
Centered(v) ==
    LET rows == Len(v)
        vmean == Table(LAMBDA b : FDiv(FSum(LAMBDA s : v[s][b], rows), Float(rows)),
                       Len(v[1]))
    IN  Table(LAMBDA s : Table(LAMBDA b : FSub(v[s][b], vmean[b]), Len(v[1])), rows)

\* factor * (w * v.T).dot(v)
Gram(factor, w, v) ==
    Table(LAMBDA a :
            Table(LAMBDA b :
                    FMul(factor,
                         FSum(LAMBDA s : FMul(w[s], FMul(v[s][a], v[s][b])), Len(v))),
                  Len(v[1])),
          Len(v[1]))

Ones(n) == Table(LAMBDA s : One, n)

\* The design matrices of all objects for the samples vp, or the error.
Designs(cs, vp) ==
    LET ds == Table(LAMBDA k : MakeCovDesignMatrix(cs[k], vp[k]), Len(cs))
    IN  IF \E k \in 1..Len(cs) : ~Ok(ds[k]) THEN Raise("KeyError")
        ELSE IF \E k \in 1..Len(cs) : Len(vp[k]) # Len(vp[1]) THEN Raise("ValueError")
        ELSE [ds |-> ds]

\* np.diag(v)
Diag(v) ==
    Table(LAMBDA a : Table(LAMBDA b : IF a = b THEN v[a] ELSE RZero, Len(v)), Len(v))

\* Variant of CovShot that divides by the weight wherever it is given.
CovShot_NoMask(cs) ==
    LET v == Concat(Table(LAMBDA k :
                 Table(LAMBDA b : FDiv(cs[k].var_num, Float(GetWeight(cs[k].total)[b])),
                       GetStatLen(cs[k])),
                 Len(cs)))
    IN  [C |-> Diag(v), vpairs |-> <<>>, draws |-> <<>>]

\* _cov_shot, lines 800-808.
CovShot(cs) ==
    LET v == Concat(Table(LAMBDA k :
                 Table(LAMBDA b :
                         LET w == GetWeight(cs[k].total)[b]
                         IN  IF w # 0 THEN FDiv(cs[k].var_num, Float(w)) ELSE RZero,
                       GetStatLen(cs[k])),
                 Len(cs)))
    IN  [C |-> Diag(v), vpairs |-> <<>>, draws |-> <<>>]

\* _cov_jackknife, lines 847-875.
CovJackknife(cs) ==
    LET g == GetPatchNums(cs)
    IN  IF ~Ok(g) THEN g
        ELSE LET vp == Table(LAMBDA k :
                          JackknifePairs(g.npatch1[k], g.npatch2[k], g.all_pairs[k]),
                          Len(cs))
                 d == Designs(cs, vp)
             IN  IF ~Ok(d) THEN d
                 ELSE LET v == Centered(Ratios(d.ds))
                      IN  [C |-> Gram(Rat(g.npatch - 1, g.npatch), Ones(Len(v)), v),
                           vpairs |-> vp, draws |-> <<>>]

\* The rows of the stacked matrix m of every object: np.hstack (lines
\* 871, 909-910, 950-951, 1004).
Stacked(ds, m(_)) ==
    Table(LAMBDA s : Concat(Table(LAMBDA k : m(ds[k])[s], Len(ds))), Len(m(ds[1])))

Vnum(d) == d.vnum
Vdenom(d) == d.vdenom

\* _cov_sample, lines 877-918.
CovSample(cs) ==
    LET g == GetPatchNums(cs)
    IN  IF ~Ok(g) THEN g
        ELSE LET vp == Table(LAMBDA k :
                          SamplePairs(g.npatch1[k], g.npatch2[k], g.all_pairs[k]),
                          Len(cs))
                 d == Designs(cs, vp)
             IN  IF ~Ok(d) THEN d
                 ELSE LET rows == Len(vp[1])
                          vdenom == Stacked(d.ds, Vdenom)
                          wsum == Table(LAMBDA s :
                                     FSum(LAMBDA b : Float(vdenom[s][b]), Len(vdenom[s])),
                                     rows)
                          wtot == FSum(LAMBDA s : wsum[s], rows)
                          w == Table(LAMBDA s : FDiv(wsum[s], wtot), rows)
                          v == Centered(Ratios(d.ds))
                      IN  IF g.npatch = 1 THEN Raise("ZeroDivisionError")
                          ELSE [C |-> Gram(Rat(1, g.npatch - 1), w, v),
                                vpairs |-> vp, draws |-> <<>>]

\* The sum of indx[i] * m[i + 1] over the patches i: np.sum(m[indx], axis=0).
Resampled(m, indx) ==
    Table(LAMBDA b : FSum(LAMBDA s : Float(indx[s - 1] * m[s][b]), Len(m)), Len(m[1]))

\* nboot = np.max([c.num_bootstrap for c in corrs])
Nboot(cs) == CHOOSE n \in {cs[k].num_bootstrap : k \in 1..Len(cs)} :
                \A k \in 1..Len(cs) : cs[k].num_bootstrap <= n

\* _cov_bootstrap, lines 920-964.  draws[k] is the draw of resample k.
CovBootstrap(cs, draws) ==
    LET g == GetPatchNums(cs)
    IN  IF ~Ok(g) THEN g
        ELSE LET vp == Table(LAMBDA k :
                          SamplePairs(g.npatch1[k], g.npatch2[k], g.all_pairs[k]),
                          Len(cs))
                 d == Designs(cs, vp)
             IN  IF ~Ok(d) THEN d
                 ELSE LET vnum == Stacked(d.ds, Vnum)
                          vdenom == Stacked(d.ds, Vdenom)
                          nboot == Nboot(cs)
                          v == Table(LAMBDA k :
                                  LET n == Resampled(vnum, draws[k])
                                      dn == Resampled(vdenom, draws[k])
                                  IN  Table(LAMBDA b : FDiv(n[b], dn[b]), Len(n)),
                                  nboot)
                          c == Centered(v)
                      IN  [C |-> Gram(FDiv(One, Float(nboot - 1)), Ones(nboot), c),
                           vpairs |-> vp, draws |-> draws]

\* _cov_bootstrap2, lines 966-1007.  draws[c][k] is the draw made for
\* object c and resample k: line 982 draws inside both loops.
CovBootstrap2(cs, draws) ==
    LET g == GetPatchNums(cs)
    IN  IF ~Ok(g) THEN g
        ELSE LET nboot == Nboot(cs)
                 vp == Table(LAMBDA c : Table(LAMBDA k :
                          Bootstrap2Pairs(g.npatch1[c], g.npatch2[c], g.all_pairs[c],
                                          draws[c][k]), nboot), Len(cs))
                 d == Designs(cs, vp)
             IN  IF ~Ok(d) THEN d
                 ELSE LET v == Centered(Ratios(d.ds))
                      IN  [C |-> Gram(FDiv(One, Float(nboot - 1)), Ones(nboot), v),
                           vpairs |-> vp, draws |-> draws]

\* Variant of EstimateMultiCov that falls back to the shot covariance when
\* an object has no stored patch results.
EstimateMultiCov_ShotFallback(cs, m, draws) ==
    IF \E k \in 1..Len(cs) : DOMAIN cs[k].results = {} THEN CovShot(cs)
    ELSE CASE m = "shot" -> CovShot(cs)
           [] m = "jackknife" -> CovJackknife(cs)
           [] m = "bootstrap" -> CovBootstrap(cs, draws)
           [] m = "bootstrap2" -> CovBootstrap2(cs, draws)
           [] m = "sample" -> CovSample(cs)
           [] OTHER -> Raise("ValueError")

\* estimate_multi_cov(corrs, method), lines 743-798.
EstimateMultiCov(cs, m, draws) ==
    CASE m = "shot" -> CovShot(cs)
      [] m = "jackknife" -> CovJackknife(cs)
      [] m = "bootstrap" -> CovBootstrap(cs, draws)
      [] m = "bootstrap2" -> CovBootstrap2(cs, draws)
      [] m = "sample" -> CovSample(cs)
      [] OTHER -> Raise("ValueError")

(***************************************************************************)
(* The objects given to estimate_multi_cov.  An object of the list has     *)
(* been filled by earlier patch runs: its store holds a set of keys with   *)
(* patch numbers below MaxCovPatch, and its own accumulators are the sum   *)
(* of the stored results (or, with an empty store, the result of a run on  *)
(* a single catalog).                                                      *)
(***************************************************************************)
CovIds == 0..(MaxCovPatch - 1)

\* The key sets: the pairs of a set A of first and a set B of second patch
\* numbers, all of them, those with i <= j (an auto run), or those with
\* i = j (a run whose cross pairs found nothing); and the empty store.
KeySets ==
    {{}} \cup
    { {p \in A \X B : \/ fill = "all"
                      \/ fill = "upper" /\ p[1] <= p[2]
                      \/ p[1] = p[2]} :
        A \in (SUBSET CovIds) \ {{}}, B \in (SUBSET CovIds) \ {{}},
        fill \in {"all", "upper", "diag"} }

\* The key sets of a complete a x b cross run.
GridKeySets == { (0..(a - 1)) \X (0..(b - 1)) : a \in 1..MaxCovPatch, b \in 1..MaxCovPatch }

\* The result stored for a key: equal stat and weight, a stat unrelated to
\* the weight, or pairs without weight.
DataKinds == {"equal", "generic", "weightless"}

PatchResult(kind, key, n) ==
    LET w == [b \in 1..n |-> key[1] + 2 * key[2] + b]
    IN  CASE kind = "equal" -> [xi |-> w, weight |-> w, npairs |-> w]
          [] kind = "generic" ->
                LET u == [b \in 1..n |-> 1]
                IN  [xi |-> [b \in 1..n |-> key[1] - key[2] + b], weight |-> u,
                     npairs |-> u]
          [] kind = "weightless" ->
                [xi |-> Zeros(n), weight |-> Zeros(n), npairs |-> [b \in 1..n |-> 1]]

\* The shot variance numerator _var_num of the derived classes.
VarNum == Two

CovObject(keys, kind, n, nboot) ==
    LET res == [k \in keys |-> PatchResult(kind, k, n)]
    IN  [results |-> res,
         total |-> IF keys = {} THEN PatchResult(kind, <<0, 0>>, n) ELSE MergeAll(res, n),
         var_num |-> VarNum,
         num_bootstrap |-> nboot]

\* A list of one object, or of two objects with one statistic each, the
\* first of them from a complete cross run.
CorrLists ==
    { <<CovObject(keys, kind, n, nboot)>> :
        keys \in KeySets, kind \in DataKinds, n \in 1..MaxStat, nboot \in 1..MaxBoot }
    \cup
    { <<CovObject(k1, "generic", 1, 1), CovObject(k2, "generic", 1, 1)>> :
        k1 \in GridKeySets, k2 \in KeySets }

Methods == {"shot", "jackknife", "sample", "bootstrap", "bootstrap2"}

\* The draws np.random.randint(npatch, size=npatch): patch -> count.
Indx(npatch) ==
    {f \in [0..(npatch - 1) -> 0..npatch] :
        FSum(LAMBDA s : Float(f[s - 1]), npatch) = Float(npatch)}

\* The draws a call makes: none, one per resample (bootstrap), or one per
\* object and resample (bootstrap2).
DrawsOf(cs, m) ==
    LET g == GetPatchNums(cs)
    IN  IF ~Ok(g) \/ m \notin {"bootstrap", "bootstrap2"} THEN {<<>>}
        ELSE IF m = "bootstrap" THEN [1..Nboot(cs) -> Indx(g.npatch)]
        ELSE [1..Len(cs) -> [1..Nboot(cs) -> Indx(g.npatch)]]

\* Variant of CorrsAfter in which the call empties the stores it has read.
CorrsAfter_Emptied(cs, m) ==
    [k \in 1..Len(cs) |-> [cs[k] EXCEPT !.results = NoResults]]

\* The objects after estimate_multi_cov(corrs, m): no statement of lines
\* 743-1007 assigns to an object of corrs or to an array stored in one (the
\* in-place updates of lines 873, 915-916, 962 and 1006 are on new arrays).
CorrsAfter(cs, m) == cs

InitCov ==
    /\ config \in AccConfigs /\ InitRest
    /\ corrs \in CorrLists /\ method = "" /\ cov = NoObject

\* cov = estimate_multi_cov(corrs, m)
Estimate(m) ==
    /\ method = ""
    /\ method' = m
    /\ \E draws \in DrawsOf(corrs, m) : cov' = EstimateMultiCov(corrs, m, draws)
    /\ corrs' = CorrsAfter(corrs, m)
    /\ UNCHANGED <<config, status, corr, results, total, temp, pc, cat1, cat2, ii, jj,
                   runs, modes, add_tot, raised, evals, sizes>>

NextCov == \E m \in Methods : Estimate(m)

SpecCov == InitCov /\ [][NextCov]_vars

(***************************************************************************)
(* The metric and the cell sizes.  A size is coef * exp(ln): the product   *)
(* of a separation, which is exp(ln) for Log bins, and a plain number.     *)
(***************************************************************************)
Three == <<3, 1>>

Scaled(coef, ln) == [coef |-> coef, ln |-> ln]

\* Lines 407-408: _min_sep and _max_sep, the separations in natural units.
NatMinSep(c) ==
    IF c.bin_type = "Log" THEN Scaled(SepUnits, Log(c.min_sep))
    ELSE Scaled(RMul(c.min_sep, SepUnits), RZero)

NatMaxSep(c) ==
    IF c.bin_type = "Log" THEN Scaled(SepUnits, Log(c.max_sep))
    ELSE Scaled(RMul(c.max_sep, SepUnits), RZero)

\* The metric names given to _set_metric; "None" is no metric.
MetricNames == {"None", "Euclidean", "Rperp", "Arc", "Periodic"}

\* Line 586: the metrics for which min_rpar and max_rpar are valid.
RparMetrics == {"Rperp", "OldRperp", "FisherRperp", "Rlens", "Arc"}

(***************************************************************************)
(* _set_metric(metric, coords1, coords2), lines 583-611: the metric the    *)
(* object has afterwards, or the error.  parse_metric is not part of this  *)
(* file: parsed is whether it accepts the metric for the coordinates (it   *)
(* raises ValueError otherwise).  The config of the model gives no metric  *)
(* and no period, so the default metric is Euclidean and the periods       *)
(* are 0.                                                                  *)
(***************************************************************************)
SetMetricResult(c, m, parsed) ==
    LET metric == IF m = "None" THEN "Euclidean" ELSE m
    IN  IF metric \notin RparMetrics
           /\ (c.min_rpar # -FloatMax \/ c.max_rpar # FloatMax)
        THEN Raise("ValueError")
        ELSE IF ~parsed THEN Raise("ValueError")
        ELSE IF metric = "Periodic" THEN Raise("ValueError")
        ELSE [metric |-> metric]

\* _get_minmax_size(), lines 622-643.
GetMinmaxSize(c) ==
    IF c.metric = "Euclidean"
    THEN IF RIsZero(FAdd(Two, FMul(Three, c.b))) THEN Raise("ZeroDivisionError")
         ELSE [min_size |-> Scaled(FDiv(FMul(NatMinSep(c).coef, c.b),
                                        FAdd(Two, FMul(Three, c.b))),
                                   NatMinSep(c).ln),
               max_size |-> Scaled(FMul(NatMaxSep(c).coef, c.b), NatMaxSep(c).ln)]
    ELSE [min_size |-> Scaled(RZero, RZero), max_size |-> Scaled(RZero, RZero)]

\* self._set_metric(m, ...): on an error the object keeps its metric.
SetMetric(m) ==
    /\ status = "ok"
    /\ \E parsed \in BOOLEAN :
          LET r == SetMetricResult(corr, m, parsed)
          IN  corr' = IF Ok(r) THEN [corr EXCEPT !.metric = r.metric] ELSE corr
    /\ UNCHANGED <<config, status, results, total, temp, pc, cat1, cat2, ii, jj,
                   runs, modes, add_tot, raised, evals, sizes>>
    /\ UNCHANGED covVars

\* sizes = self._get_minmax_size()
MinmaxSize ==
    /\ status = "ok"
    /\ sizes' = GetMinmaxSize(corr)
    /\ UNCHANGED <<config, status, corr, results, total, temp, pc, cat1, cat2, ii, jj,
                   runs, modes, add_tot, raised, evals>>
    /\ UNCHANGED covVars

NextSize ==
    \/ Construct
    \/ \E m \in MetricNames : SetMetric(m)
    \/ MinmaxSize

SpecSize == Init /\ [][NextSize]_vars

(***************************************************************************)
(* Vocabulary of the properties of the constructor.                        *)
(***************************************************************************)
Has(k) == k \in DOMAIN config
BinType == config.bin_type
Constructed == status = "ok"
Failed == status \notin {"new", "ok"}

\* How many of the given keys the config supplies.
Count(keys) == Cardinality(keys \cap DOMAIN config)
BinKeys == {"nbins", "bin_size", "min_sep", "max_sep"}
TwoDKeys == {"nbins", "bin_size", "max_sep"}

\* The supplied values are usable: a positive bin count and bin size, a
\* positive max_sep, min_sep below max_sep, min_rpar <= max_rpar.
ValidValues ==
    /\ Has("nbins") => config.nbins >= 1
    /\ Has("bin_size") => RLt(RZero, config.bin_size)
    /\ (Has("max_sep") /\ BinType # "Log") => RLt(RZero, config.max_sep)
    /\ (Has("min_sep") /\ Has("max_sep"))
           => SepLt(BinType, config.min_sep, config.max_sep)
    /\ ~(Has("min_rpar") /\ Has("max_rpar") /\ config.min_rpar > config.max_rpar)

\* A Linear min_sep derived from the other three is not negative.
DerivedMinNonNeg ==
    (BinType = "Linear" /\ ~Has("min_sep") /\ Count(TwoDKeys) = 3)
        => RLe(RMul(Float(config.nbins), config.bin_size), config.max_sep)

\* The range the bins cover: log(max_sep/min_sep), max_sep - min_sep, or
\* 2 max_sep, from the resolved values.
Range ==
    CASE BinType = "Log" -> Log(PDiv(corr.max_sep, corr.min_sep))
      [] BinType = "Linear" -> RSub(corr.max_sep, corr.min_sep)
      [] BinType = "TwoD" -> RMul(Two, corr.max_sep)

(***************************************************************************)
(* C1: construction fails when the number of supplied binning parameters   *)
(* is wrong (Log, Linear: not exactly 3 of nbins, bin_size, min_sep,       *)
(* max_sep; TwoD: not exactly 2 of nbins, bin_size, max_sep), and succeeds *)
(* for every exactly-3 (TwoD: exactly-2, min_sep left out) subset whose    *)
(* values are valid.                                                       *)
(***************************************************************************)
C1_ParamCount ==
    status # "new" =>
        /\ (BinType \in {"Log", "Linear"} /\ Count(BinKeys) # 3) => Failed
        /\ (BinType = "TwoD" /\ Count(TwoDKeys) # 2) => Failed
        /\ (BinType \in {"Log", "Linear"} /\ Count(BinKeys) = 3
              /\ ValidValues /\ DerivedMinNonNeg) => Constructed
        /\ (BinType = "TwoD" /\ Count(TwoDKeys) = 2 /\ ~Has("min_sep")
              /\ ValidValues) => Constructed

\* All four parameters were supplied for Log, with valid values: an error.
C1_Witness ==
    /\ BinType = "Log" /\ Count(BinKeys) = 4 /\ ValidValues
    /\ status = "TypeError"

(***************************************************************************)
(* C2 as stated: for TwoD a supplied min_sep always makes construction     *)
(* fail.                                                                   *)
(***************************************************************************)
C2_MinSepAlwaysFails ==
    (status # "new" /\ BinType = "TwoD" /\ Has("min_sep")) => Failed

(***************************************************************************)
(* C2 amended: for TwoD, min_sep is optional.  With min_sep supplied,      *)
(* construction fails when the number of supplied parameters among nbins,  *)
(* bin_size, max_sep is not 2, or when max_sep is supplied and             *)
(* min_sep >= max_sep; otherwise, with valid values, it succeeds and the   *)
(* object keeps the supplied min_sep.                                      *)
(***************************************************************************)
C2_MinSepOptional ==
    (status # "new" /\ BinType = "TwoD" /\ Has("min_sep")) =>
        /\ Count(TwoDKeys) # 2 => Failed
        /\ (Has("max_sep") /\ ~RLt(config.min_sep, config.max_sep)) => Failed
        /\ (Count(TwoDKeys) = 2 /\ ValidValues)
              => (Constructed /\ corr.min_sep = config.min_sep)

\* A TwoD object was constructed from a config that supplies min_sep.
C2_Witness ==
    /\ BinType = "TwoD" /\ Has("min_sep") /\ Has("max_sep") /\ Has("bin_size")
    /\ Constructed /\ corr.min_sep = config.min_sep

(***************************************************************************)
(* C3: when min_sep and max_sep are both supplied with                     *)
(* min_sep >= max_sep, construction fails, for every bin_type and every    *)
(* choice of the other supplied parameters.                                *)
(***************************************************************************)
C3_OrderChecked ==
    (status # "new" /\ Has("min_sep") /\ Has("max_sep")
       /\ SepGe(BinType, config.min_sep, config.max_sep)) => Failed

\* min_sep > max_sep with nbins as the third parameter: the ValueError of
\* line 299.
C3_Witness ==
    /\ Has("min_sep") /\ Has("max_sep") /\ Has("nbins") /\ ~Has("bin_size")
    /\ SepLt(BinType, config.max_sep, config.min_sep)
    /\ status = "ValueError"

(***************************************************************************)
(* The resolved layout, per axis.  Log and Linear have one axis: rnom,     *)
(* left_edges and right_edges.  TwoD has the x axis (dx, left_edges,       *)
(* right_edges along a row) and the y axis (dy, bottom_edges, top_edges    *)
(* along a column).                                                        *)
(***************************************************************************)
Lt(x, y) == SepLt(BinType, x, y)

AxisOk(n, centers, left, right) ==
    /\ Len(centers) = n /\ Len(left) = n /\ Len(right) = n
    /\ \A k \in 1..n : Lt(left[k], right[k])
    /\ \A k \in 1..(n - 1) : Lt(left[k], left[k + 1])

Column(grid, c) == [r \in 1..Len(grid) |-> grid[r][c]]

LayoutOk ==
    IF BinType = "TwoD"
    THEN /\ Len(corr.dx) = corr.nbins /\ Len(corr.dy) = corr.nbins
         /\ \A r \in 1..corr.nbins :
                AxisOk(corr.nbins, corr.dx[r], corr.left_edges[r], corr.right_edges[r])
         /\ \A c \in 1..corr.nbins :
                AxisOk(corr.nbins, Column(corr.dy, c), Column(corr.bottom_edges, c),
                       Column(corr.top_edges, c))
    ELSE AxisOk(corr.nbins, corr.rnom, corr.left_edges, corr.right_edges)

(***************************************************************************)
(* C4: after every construction that returns without error, nbins >= 1,    *)
(* min_sep < max_sep, the centre and edge arrays have nbins entries per    *)
(* axis and the edges are strictly increasing per axis.                    *)
(***************************************************************************)
C4_ResolvedLayout ==
    Constructed =>
        /\ corr.nbins >= 1
        /\ Lt(corr.min_sep, corr.max_sep)
        /\ LayoutOk

\* The same layout for the constructions whose supplied values are valid
\* and whose min_sep, where max_sep is derived, is not above it.
C4_ValidLayout ==
    (Constructed /\ ValidValues /\ Lt(corr.min_sep, corr.max_sep)) =>
        /\ corr.nbins >= 1
        /\ LayoutOk

\* A construction from nbins = 0 returned without error.
C4_Witness == Constructed /\ Has("nbins") /\ config.nbins = 0

(***************************************************************************)
(* C5: for a valid 3-of-4 Log or Linear input the resolved values are      *)
(* consistent: nbins * bin_size is the range, re-deriving the omitted      *)
(* parameter from the other three resolved values reproduces it, and the   *)
(* bins tile [min_sep, max_sep]: left_edges[0] = min_sep,                  *)
(* right_edges[k] = left_edges[k+1], right_edges[nbins-1] = max_sep.       *)
(***************************************************************************)
Span == RMul(Float(corr.nbins), corr.bin_size)

C5_Consistent ==
    (Constructed /\ BinType \in {"Log", "Linear"} /\ ValidValues) =>
        /\ Span = Range
        /\ ~Has("nbins") => Ceil(RDiv(Range, corr.bin_size)) = corr.nbins
        /\ ~Has("bin_size") => RDiv(Range, Float(corr.nbins)) = corr.bin_size
        /\ ~Has("max_sep") =>
              corr.max_sep = IF BinType = "Log" THEN PMul(corr.min_sep, Exp(Span))
                             ELSE RAdd(corr.min_sep, Span)
        /\ ~Has("min_sep") =>
              corr.min_sep = IF BinType = "Log" THEN PDiv(corr.max_sep, Exp(Span))
                             ELSE RSub(corr.max_sep, Span)
        /\ corr.left_edges[1] = corr.min_sep
        /\ \A k \in 1..(corr.nbins - 1) : corr.right_edges[k] = corr.left_edges[k + 1]
        /\ corr.right_edges[corr.nbins] = corr.max_sep

\* A Log layout of several bins whose nbins was derived by rounding up.
C5_Witness ==
    /\ Constructed /\ BinType = "Log" /\ ValidValues /\ ~Has("nbins")
    /\ corr.nbins >= 2 /\ corr.bin_size # config.bin_size

(***************************************************************************)
(* C6: when nbins is not supplied, the resolved nbins is the ceiling of    *)
(* range / bin_size, the smallest integer with                             *)
(* nbins * requested bin_size >= range, and bin_size is replaced by        *)
(* range / nbins.                                                          *)
(***************************************************************************)
C6_CeilNbins ==
    (Constructed /\ ~Has("nbins")) =>
        /\ RLe(Range, RMul(Float(corr.nbins), config.bin_size))
        /\ RLt(RMul(Float(corr.nbins - 1), config.bin_size), Range)
        /\ corr.bin_size = RDiv(Range, Float(corr.nbins))

\* The range is not a multiple of the requested bin_size: nbins rounds up.
C6_Witness ==
    /\ Constructed /\ ~Has("nbins") /\ BinType = "TwoD"
    /\ RLt(Range, RMul(Float(corr.nbins), config.bin_size))

(***************************************************************************)
(* C7 as stated: when nbins is derived, the resolved bin_size is at least  *)
(* the requested bin_size.                                                 *)
(***************************************************************************)
C7_RequestedIsLowerBound ==
    (Constructed /\ ~Has("nbins")) => RLe(config.bin_size, corr.bin_size)

(***************************************************************************)
(* C7 amended: when nbins is derived, the requested bin_size is an upper   *)
(* bound on the resolved bin_size: resolved bin_size <= requested          *)
(* bin_size.                                                               *)
(***************************************************************************)
C7_RequestedIsUpperBound ==
    (Constructed /\ ~Has("nbins")) => RLe(corr.bin_size, config.bin_size)

\* The resolved bin_size is strictly below the requested one.
C7_Witness ==
    /\ Constructed /\ ~Has("nbins") /\ BinType = "Linear"
    /\ RLt(corr.bin_size, config.bin_size)

(***************************************************************************)
(* Vocabulary of the properties of the accumulation.                       *)
(***************************************************************************)
VSub(a, b) == [k \in DOMAIN a |-> a[k] - b[k]]

\* What a step added to the object's own accumulators.
Added == [xi |-> VSub(total'.xi, total.xi), weight |-> VSub(total'.weight, total.weight),
          npairs |-> VSub(total'.npairs, total.npairs)]

\* Only patch-mode calls (more than one catalog, not pairwise) were made.
OnlyPatchRuns == modes \subseteq {"patch"}

\* The object is in, or has just finished, its first call, a patch-mode one.
FirstPatchRun ==
    \/ runs = 0 /\ pc # "idle"
    \/ runs = 1 /\ pc = "idle" /\ modes = {"patch"}

FirstIndices == {k[1] : k \in DOMAIN results}
SecondIndices == {k[2] : k \in DOMAIN results}

\* The patch numbers of a catalog list.
Patches(cat) == {PatchOf(cat, k) : k \in 1..Len(cat)}

\* The second catalog list of the last call: cat1 again for an auto call.
SecondCat == IF cat2 = <<>> THEN cat1 ELSE cat2

(***************************************************************************)
(* C8 as stated: after any sequence of accumulation runs, the combined     *)
(* result is the elementwise sum of all results in the results store.      *)
(* Stated for sequences of patch-mode runs only: a single-catalog or       *)
(* pairwise run stores nothing at all.                                     *)
(***************************************************************************)
C8_CombinedIsSumOfStored ==
    (status = "ok" /\ pc = "idle" /\ OnlyPatchRuns)
        => total = MergeAll(results, corr._nbins)

(***************************************************************************)
(* C8 amended: during and after a patch-mode run that starts on an object  *)
(* whose combined result is zero and whose results store is empty, in any  *)
(* patch order, the combined result is the elementwise sum of all stored   *)
(* results.                                                                *)
(***************************************************************************)
C8_FirstRunSumOfStored ==
    (status = "ok" /\ FirstPatchRun) => total = MergeAll(results, corr._nbins)

\* A first patch-mode run has ended with an off-diagonal pair stored,
\* another pair skipped, and a nonzero combined result.
C8_Witness ==
    /\ status = "ok" /\ runs = 1 /\ pc = "idle" /\ modes = {"patch"}
    /\ \E k \in DOMAIN results : k[1] # k[2]
    /\ add_tot > 0
    /\ total # NewAccum(corr._nbins)

(***************************************************************************)
(* C9: after a patch-mode run over n1 x n2 patches numbered 0..n1-1 and    *)
(* 0..n2-1 (n1 = n2, or one of them 1), the first indices of the stored    *)
(* keys are exactly 0..n1-1 and the second indices exactly 0..n2-1, even   *)
(* when some evaluated pairs had zero weight.                              *)
(***************************************************************************)
C9_IndexRanges ==
    LET n1 == Len(cat1)
        n2 == Len(SecondCat)
    IN  (/\ status = "ok" /\ runs = 1 /\ pc = "idle" /\ modes = {"patch"}
         /\ Patches(cat1) = 0..(n1 - 1) /\ Patches(SecondCat) = 0..(n2 - 1)
         /\ (n1 = n2 \/ n1 = 1 \/ n2 = 1))
        => (FirstIndices = 0..(n1 - 1) /\ SecondIndices = 0..(n2 - 1))

\* A 1 x 2 cross run has ended and only the second index 0 is stored.
C9_Witness ==
    /\ status = "ok" /\ runs = 1 /\ pc = "idle" /\ modes = {"patch"}
    /\ Len(cat1) = 1 /\ Len(cat2) = 2
    /\ Patches(cat1) = {0} /\ Patches(cat2) = {0, 1}
    /\ SecondIndices = {0}

\* The results store is empty on construction.
EmptyOnConstruction ==
    (status = "ok" /\ runs = 0 /\ pc = "idle") => results = NoResults

\* A key once present is never removed.
KeysKept == DOMAIN results \subseteq DOMAIN results'

(***************************************************************************)
(* C10 as stated: the results store is empty on construction, a key once   *)
(* present is never removed, and a new result for a key that already has   *)
(* an entry is added elementwise to that entry.                            *)
(***************************************************************************)
C10_MergedIntoExisting ==
    /\ []EmptyOnConstruction
    /\ [][/\ KeysKept
          /\ \A k \in DOMAIN results :
                results'[k] # results[k] => results'[k] = Merge(results[k], Added)]_vars

(***************************************************************************)
(* C10 amended: the results store is empty on construction, a key once     *)
(* present is never removed, and a new result for a key that already has   *)
(* an entry replaces that entry: the store holds the result just added to  *)
(* the combined result.                                                    *)
(***************************************************************************)
C10_ReplacesExisting ==
    /\ []EmptyOnConstruction
    /\ [][/\ KeysKept
          /\ \A k \in DOMAIN results :
                results'[k] # results[k] => results'[k] = Added]_vars

\* Two patch-mode runs have ended and an entry of the first was replaced:
\* the combined result is no longer the sum of the stored results.
C10_Witness ==
    /\ status = "ok" /\ runs = 2 /\ pc = "idle" /\ modes = {"patch"}
    /\ total # MergeAll(results, corr._nbins)

(***************************************************************************)
(* Vocabulary of the properties of the traversal tolerance.                *)
(***************************************************************************)
\* bin_size for Log, bin_size/max_sep for Linear and TwoD.
MinLogBinSize ==
    IF BinType = "Log" THEN corr.bin_size ELSE RDiv(corr.bin_size, corr.max_sep)

\* bin_size for Log, bin_size/(min_sep + bin_size/2) for Linear and TwoD.
MaxLogBinSize ==
    IF BinType = "Log" THEN corr.bin_size
    ELSE RDiv(corr.bin_size, RAdd(corr.min_sep, RDiv(corr.bin_size, Two)))

\* The config supplies a bin_slop that is not negative.
GivenSlop == Has("bin_slop") /\ RLe(RZero, config.bin_slop)

\* The recommended bound 0.1/max_log_bin_size.
SlopBound == RDiv(Tenth, MaxLogBinSize)

(***************************************************************************)
(* C17: on a constructed object b = bin_slop * min_log_bin_size, with      *)
(* min_log_bin_size = bin_size for Log and bin_size/max_sep for Linear and *)
(* TwoD; a bin_slop that is not supplied defaults to                       *)
(* min(0.1/max_log_bin_size, 1), with max_log_bin_size = bin_size for Log  *)
(* and bin_size/(min_sep + bin_size/2) for Linear and TwoD.                *)
(***************************************************************************)
C17_Tolerance ==
    Constructed =>
        /\ corr.b = RMul(corr.bin_slop, MinLogBinSize)
        /\ ~Has("bin_slop") => corr.bin_slop = RMin(SlopBound, One)
        /\ (Has("bin_slop") /\ GivenSlop) => corr.bin_slop = config.bin_slop

\* A Linear object built without bin_slop whose default is below 1 and
\* whose two log bin sizes differ.
C17_Witness ==
    /\ Constructed /\ BinType = "Linear" /\ ~Has("bin_slop")
    /\ RLt(corr.bin_slop, One) /\ RLt(RZero, corr.bin_slop)
    /\ MinLogBinSize # MaxLogBinSize
    /\ corr.b = RMul(corr.bin_slop, MinLogBinSize)

(***************************************************************************)
(* C18 as stated: whenever the supplied bin_slop is larger than            *)
(* 0.1/max_log_bin_size, construction logs a warning and succeeds, and b   *)
(* is computed from the supplied bin_slop as given.                        *)
(***************************************************************************)
C18_WarnsAboveBound ==
    (Constructed /\ GivenSlop /\ RLt(SlopBound, config.bin_slop))
        => (corr.warned /\ corr.b = RMul(config.bin_slop, MinLogBinSize))

\* The config without its bin_slop.
WithoutSlop == [k \in (DOMAIN config) \ {"bin_slop"} |-> config[k]]

(***************************************************************************)
(* C18 amended: a supplied bin_slop never makes construction fail; for a   *)
(* supplied bin_slop that is not negative the warning is logged exactly    *)
(* when it exceeds 0.1/max_log_bin_size by more than 0.0001, and in every  *)
(* such case b is computed from the supplied bin_slop as given.            *)
(***************************************************************************)
C18_WarnsBeyondSlop ==
    /\ (status # "new" /\ Has("bin_slop") /\ Ok(Constructor(WithoutSlop)))
           => Constructed
    /\ (Constructed /\ GivenSlop) =>
           /\ corr.warned <=> RLt(RAdd(SlopBound, SlopEps), config.bin_slop)
           /\ corr.bin_slop = config.bin_slop
           /\ corr.b = RMul(config.bin_slop, MinLogBinSize)

\* An object was built with a warning, its bin_slop kept above the bound.
C18_Witness ==
    /\ Constructed /\ GivenSlop /\ corr.warned
    /\ RLt(SlopBound, corr.bin_slop)
    /\ corr.b = RMul(config.bin_slop, MinLogBinSize)

(***************************************************************************)
(* C19: a constructed TwoD object has an nbins x nbins grid with           *)
(* _nbins = nbins^2, axis centres symmetric about 0 (the k-th centre is    *)
(* the negative of the (nbins-1-k)-th), and outer edges exactly -max_sep   *)
(* and +max_sep on each axis, whichever parameter was derived.             *)
(***************************************************************************)
C19_TwoDGrid ==
    (Constructed /\ BinType = "TwoD") =>
        LET n == corr.nbins
            N == 1..n
        IN  /\ n >= 1
            /\ corr._nbins = n * n
            /\ Len(corr.dx) = n /\ Len(corr.dy) = n
            /\ \A r \in N : Len(corr.dx[r]) = n /\ Len(corr.dy[r]) = n
            /\ \A r, k \in N : /\ corr.dx[r][k] = RNeg(corr.dx[r][n + 1 - k])
                               /\ corr.dy[k][r] = RNeg(corr.dy[n + 1 - k][r])
            /\ \A r \in N : /\ corr.left_edges[r][1] = RNeg(corr.max_sep)
                            /\ corr.right_edges[r][n] = corr.max_sep
                            /\ corr.bottom_edges[1][r] = RNeg(corr.max_sep)
                            /\ corr.top_edges[n][r] = corr.max_sep

\* A TwoD grid of three or more cells a side, built from bin_size and
\* max_sep, nbins being derived and bin_size reduced.
C19_Witness ==
    /\ Constructed /\ BinType = "TwoD" /\ ~Has("nbins")
    /\ corr.nbins >= 3 /\ corr.bin_size # config.bin_size
    /\ corr.left_edges[1][1] = RNeg(corr.max_sep)
    /\ corr.right_edges[1][corr.nbins] = corr.max_sep

(***************************************************************************)
(* Vocabulary of the properties of one patch run.                          *)
(***************************************************************************)
\* The current or last call is a patch-mode _process_all_auto.
AutoRun == status = "ok" /\ cat2 = <<>> /\ Len(cat1) > 1

\* That call has returned.
AutoDone == AutoRun /\ pc = "idle"

\* How many times the run evaluated the patches i and j, in this order.
EvalCount(i, j) ==
    Cardinality({k \in 1..Len(evals) : evals[k].i = i /\ evals[k].j = j})

\* How many times the run wrote the key (i, j).
WriteCount(i, j) ==
    Cardinality({k \in 1..Len(evals) :
                   evals[k].i = i /\ evals[k].j = j /\ evals[k].stored})

\* The step evaluates one patch pair.
Evaluates == evals' # evals /\ evals' # <<>>
LastEval == evals'[Len(evals')]

\* The step stores the evaluated result under its key and adds it to self.
StoresIt ==
    /\ results' = Store(results, <<LastEval.i, LastEval.j>>, LastEval.result)
    /\ total' = Merge(total, LastEval.result)
    /\ add_tot' = add_tot

\* The step hands the evaluated result to _add_tot and stores nothing.
SkipsIt == results' = results /\ total' = total /\ add_tot' = add_tot + 1

\* Every pair i <= j of the run's patches is evaluated exactly once by a
\* finished run, and no pair i > j is ever evaluated or stored; no key is
\* written twice.
AutoPairsOnce ==
    AutoRun =>
        /\ \A i, j \in Patches(cat1) :
              /\ i > j => EvalCount(i, j) = 0
              /\ WriteCount(i, j) <= 1
              /\ (AutoDone /\ i <= j) => EvalCount(i, j) = 1
        /\ \A k \in 1..Len(evals) :
              evals[k].i \in Patches(cat1) /\ evals[k].j \in Patches(cat1)

(***************************************************************************)
(* C20 as stated: in auto mode over n > 1 patches with distinct patch      *)
(* ids, every pair i <= j is evaluated exactly once; its result is stored  *)
(* under (i,j) and merged into the combined result iff i = j or its        *)
(* accumulated weight is nonzero, otherwise _add_tot is invoked once and   *)
(* nothing is stored or merged; no key with i > j is stored and no key is  *)
(* written twice in one run.                                               *)
(***************************************************************************)
C20_StoredIffWeight ==
    /\ []AutoPairsOnce
    /\ [][(AutoRun' /\ Evaluates) =>
            /\ LastEval.stored <=> (LastEval.i = LastEval.j
                                      \/ NpSum(LastEval.result.weight) # 0)
            /\ IF LastEval.stored THEN StoresIt ELSE SkipsIt]_vars

(***************************************************************************)
(* C20 amended: the same, the result being stored and merged iff i = j or  *)
(* its pair count np.sum(npairs) is positive, whatever its weight.         *)
(***************************************************************************)
C20_StoredIffPairs ==
    /\ []AutoPairsOnce
    /\ [][(AutoRun' /\ Evaluates) =>
            /\ LastEval.stored <=> (LastEval.i = LastEval.j
                                      \/ NpSum(LastEval.result.npairs) > 0)
            /\ IF LastEval.stored THEN StoresIt ELSE SkipsIt]_vars

\* An auto run over two patches has ended: three evaluations, the cross
\* pair stored although its weight is zero.
C20_Witness ==
    /\ AutoDone /\ Len(cat1) = 2 /\ Len(evals) = 3
    /\ \E k \in 1..Len(evals) :
          /\ evals[k].i < evals[k].j /\ evals[k].stored
          /\ NpSum(evals[k].result.weight) = 0
          /\ <<evals[k].i, evals[k].j>> \in DOMAIN results

(***************************************************************************)
(* Vocabulary of the properties of estimate_multi_cov.                     *)
(***************************************************************************)
PatchMethods == {"jackknife", "sample", "bootstrap", "bootstrap2"}

\* estimate_multi_cov has been called; it returned a matrix, or raised.
Called == method # ""
Returned == Called /\ Ok(cov)
Fatal == Called /\ ~Ok(cov)

Objects == 1..Len(corrs)
Keys(k) == DOMAIN corrs[k].results
\* The numbers of distinct first and second patch indices of object k.
N1(k) == Cardinality(FirstNums(Keys(k)))
N2(k) == Cardinality(SecondNums(Keys(k)))

(***************************************************************************)
(* C11: with the method jackknife, sample, bootstrap or bootstrap2, if any *)
(* object of the list has an empty results store, estimate_multi_cov       *)
(* raises an error and returns no matrix; the method shot returns a matrix *)
(* whatever the stores hold.                                               *)
(***************************************************************************)
C11_PatchesRequired ==
    Called =>
        /\ (method \in PatchMethods /\ \E k \in Objects : Keys(k) = {}) => Fatal
        /\ method = "shot" => (Returned /\ "C" \in DOMAIN cov)

\* A patch method was asked for on an object with an empty store, and the
\* call raised ValueError.
C11_Witness ==
    /\ method \in PatchMethods /\ Len(corrs) = 1 /\ Keys(1) = {}
    /\ cov = Raise("ValueError")

(***************************************************************************)
(* C12: covariance estimation by jackknife, sample, bootstrap or           *)
(* bootstrap2 fails whenever the two patch-index axes of a results store   *)
(* have different counts that are both not 1, or a second object has an    *)
(* axis count that is neither 1 nor the patch count of the first object.   *)
(***************************************************************************)
C12_CountsMustAgree ==
    (Called /\ method \in PatchMethods) =>
        /\ (\E k \in Objects : N1(k) # N2(k) /\ N1(k) # 1 /\ N2(k) # 1) => Fatal
        /\ (\E k \in Objects \ {1} :
               \/ N1(k) \notin {1, Max(N1(1), N2(1))}
               \/ N2(k) \notin {1, Max(N1(1), N2(1))}) => Fatal

\* The first object has 3 x 3 patches, the second 2 x 2 without a gap, and
\* the call raised ValueError.
C12_Witness ==
    /\ method \in PatchMethods /\ Len(corrs) = 2
    /\ Keys(1) = (0..2) \X (0..2) /\ Keys(2) = (0..1) \X (0..1)
    /\ cov = Raise("ValueError")

\* Object k has a missing patch entry: its first or its second indices are
\* not the contiguous range from 0.
HasGap(k) ==
    \/ FirstNums(Keys(k)) # 0..(N1(k) - 1)
    \/ SecondNums(Keys(k)) # 0..(N2(k) - 1)

(***************************************************************************)
(* C13: with the method jackknife, sample, bootstrap or bootstrap2, if any *)
(* object's stored keys have a missing patch entry (its first or second    *)
(* indices are not the contiguous range 0..n-1), estimate_multi_cov ends   *)
(* in an error and returns no matrix.                                      *)
(***************************************************************************)
C13_GapsAreFatal ==
    (Called /\ method \in PatchMethods /\ \E k \in Objects : HasGap(k)) => Fatal

\* The second object stores the patches 0 and 2 only, and the call
\* returned a matrix.
C13_Witness ==
    /\ method = "jackknife" /\ Len(corrs) = 2
    /\ Keys(1) = (0..1) \X (0..1) /\ Keys(2) = {<<0, 0>>, <<2, 2>>}
    /\ Returned /\ "C" \in DOMAIN cov

\* The weights and the shot numerators of all objects, side by side.
AllWeights == Concat([k \in Objects |-> GetWeight(corrs[k].total)])
AllVarNums ==
    Concat([k \in Objects |-> [b \in 1..GetStatLen(corrs[k]) |-> corrs[k].var_num]])

(***************************************************************************)
(* C14: the shot covariance is an N x N matrix, N the sum of the objects'  *)
(* stat lengths, with every off-diagonal entry 0 and diagonal entry k      *)
(* equal to var_num/weight[k] where weight[k] # 0 and 0 where it is 0.     *)
(***************************************************************************)
C14_ShotDiagonal ==
    (Called /\ method = "shot") =>
        LET N == Len(AllWeights)
        IN  /\ Returned
            /\ Len(cov.C) = N
            /\ \A a \in 1..N :
                  /\ Len(cov.C[a]) = N
                  /\ \A b \in (1..N) \ {a} : cov.C[a][b] = RZero
                  /\ AllWeights[a] = 0 => cov.C[a][a] = RZero
                  /\ AllWeights[a] # 0 =>
                        RMul(cov.C[a][a], Float(AllWeights[a])) = AllVarNums[a]

\* The shot covariance of an object with two bins of zero weight.
C14_Witness ==
    /\ method = "shot" /\ Len(corrs) = 1 /\ Returned
    /\ AllWeights = <<0, 0>>
    /\ cov.C = <<<<RZero, RZero>>, <<RZero, RZero>>>>

\* The estimate Vnum/Vdenom of sample s, over all objects.
Estimate_(s) ==
    Concat([k \in Objects |->
        LET n == BagSum(cov.vpairs[k][s], corrs[k].results, GetStat, GetStatLen(corrs[k]))
            d == BagSum(cov.vpairs[k][s], corrs[k].results, GetWeight, GetStatLen(corrs[k]))
        IN  [b \in 1..GetStatLen(corrs[k]) |-> FDiv(Float(n[b]), Float(d[b]))]])

\* Every sample has the same, finite, estimate.
EqualEstimates ==
    \A s \in 1..Len(cov.vpairs[1]) :
        /\ Estimate_(s) = Estimate_(1)
        /\ \A b \in 1..Len(Estimate_(s)) : ~IsNaN(Estimate_(s)[b])

ZeroMatrix(C) == \A a \in 1..Len(C) : \A b \in 1..Len(C[a]) : C[a][b] = RZero

(***************************************************************************)
(* C15 as stated: in the sample covariance, sample i is built from exactly *)
(* the stored keys whose first index is i, and whenever every per-patch    *)
(* estimate is the same vector the covariance is the all-zero matrix.      *)
(***************************************************************************)
C15_SampleByFirstIndex ==
    (method = "sample" /\ Returned) =>
        /\ \A k \in Objects : \A s \in 1..Len(cov.vpairs[k]) :
              cov.vpairs[k][s] = SetBag({p \in Keys(k) : p[1] = s - 1})
        /\ EqualEstimates => ZeroMatrix(cov.C)

(***************************************************************************)
(* C15 amended: sample i is built from exactly the stored keys whose first *)
(* index is i, except for an object with a single first index and several  *)
(* second indices, where sample i is the one key (0, i); whenever every    *)
(* per-patch estimate is the same finite vector the covariance is the      *)
(* all-zero matrix (in exact arithmetic).                                  *)
(***************************************************************************)
C15_SampleByPatch ==
    (method = "sample" /\ Returned) =>
        /\ \A k \in Objects : \A s \in 1..Len(cov.vpairs[k]) :
              cov.vpairs[k][s] =
                  IF N1(k) = 1 /\ N2(k) # 1 THEN SetBag({<<0, s - 1>>})
                  ELSE SetBag({p \in Keys(k) : p[1] = s - 1})
        /\ EqualEstimates => ZeroMatrix(cov.C)

\* The sample covariance of three patches, auto and cross pairs stored,
\* with stat equal to weight: every estimate is 1 and the matrix is zero.
C15_Witness ==
    /\ method = "sample" /\ Returned /\ Len(corrs) = 1
    /\ Keys(1) = (0..2) \X (0..2)
    /\ \A p \in Keys(1) : corrs[1].results[p].xi = corrs[1].results[p].weight
    /\ EqualEstimates /\ ZeroMatrix(cov.C)

CrossRun ==
    /\ status = "ok" /\ cat2 # <<>>
    /\ ~Get(config, "pairwise", FALSE)
    /\ ~(Len(cat1) = 1 /\ Len(cat2) = 1)

\* That call has returned.
CrossDone == CrossRun /\ pc = "idle"

\* Every pair (i, j) of a patch of catalog 1 and a patch of catalog 2 is
\* evaluated exactly once by a finished run and at most once before; no
\* other pair is evaluated, and no key is written twice.
CrossPairsOnce ==
    CrossRun =>
        /\ \A i \in Patches(cat1), j \in Patches(cat2) :
              /\ EvalCount(i, j) <= 1
              /\ WriteCount(i, j) <= 1
              /\ CrossDone => EvalCount(i, j) = 1
        /\ \A k \in 1..Len(evals) :
              evals[k].i \in Patches(cat1) /\ evals[k].j \in Patches(cat2)

(***************************************************************************)
(* C21 as stated: in cross mode over n1 x n2 patches (not pairwise, not    *)
(* 1 x 1) every (i,j), i of catalog 1 and j of catalog 2, is evaluated     *)
(* exactly once; the result is stored under (i,j) and merged into the      *)
(* combined result iff i = j or its accumulated weight is nonzero, so a    *)
(* diagonal key is recorded even when all-zero; otherwise _add_tot is      *)
(* invoked on it and nothing is stored.                                    *)
(***************************************************************************)
C21_CrossStoredIffWeight ==
    /\ []CrossPairsOnce
    /\ [][(CrossRun' /\ Evaluates) =>
            /\ LastEval.stored <=> (LastEval.i = LastEval.j
                                      \/ NpSum(LastEval.result.weight) # 0)
            /\ IF LastEval.stored THEN StoresIt ELSE SkipsIt]_vars

(***************************************************************************)
(* C21 amended: the same, the result being stored and merged iff i = j or  *)
(* its pair count np.sum(npairs) is positive, whatever its weight.         *)
(***************************************************************************)
C21_CrossStoredIffPairs ==
    /\ []CrossPairsOnce
    /\ [][(CrossRun' /\ Evaluates) =>
            /\ LastEval.stored <=> (LastEval.i = LastEval.j
                                      \/ NpSum(LastEval.result.npairs) > 0)
            /\ IF LastEval.stored THEN StoresIt ELSE SkipsIt]_vars

\* A 2 x 2 cross run has ended: four evaluations, a diagonal pair without
\* any pair of points is stored, an off-diagonal one without pairs is not.
C21_Witness ==
    /\ CrossDone /\ Len(cat1) = 2 /\ Len(cat2) = 2 /\ Len(evals) = 4 /\ runs = 1
    /\ \E k \in 1..Len(evals) :
          /\ evals[k].i = evals[k].j /\ evals[k].stored
          /\ evals[k].result = NewAccum(corr._nbins)
          /\ results[<<evals[k].i, evals[k].j>>] = NewAccum(corr._nbins)
    /\ \E k \in 1..Len(evals) :
          /\ evals[k].i # evals[k].j /\ ~evals[k].stored
          /\ <<evals[k].i, evals[k].j>> \notin DOMAIN results
    /\ add_tot > 0

(***************************************************************************)
(* Vocabulary of the properties of the bootstrap resamples.                *)
(***************************************************************************)
\* How many times resample k of object c holds the key p.
Times(c, k, p) ==
    IF p \in DOMAIN cov.vpairs[c][k] THEN cov.vpairs[c][k][p] ELSE 0

\* How many times the draw made for resample k of object c holds patch i.
Occurs(c, k, i) ==
    IF i \in DOMAIN cov.draws[c][k] THEN cov.draws[c][k][i] ELSE 0

\* Object c takes the branch of lines 989-998: n1 == n2, neither of them 1.
SquareObject(c) == N1(c) = N2(c) /\ N1(c) # 1

\* bootstrap2 has returned; c is a square object and k one of its resamples.
SquareResamples ==
    {ck \in Objects \X (1..Nboot(corrs)) : SquareObject(ck[1])}

(***************************************************************************)
(* C22 as stated: in bootstrap2 with n1 == n2 each resample includes the   *)
(* auto-pair (i,i) once per occurrence of i in the draw, and each stored   *)
(* cross key (i,j), i # j, whose two endpoints both occur in the draw      *)
(* exactly once, however many times i or j was drawn.                      *)
(***************************************************************************)
C22_CrossOncePerPresence ==
    (method = "bootstrap2" /\ Returned) =>
        \A ck \in SquareResamples :
            LET c == ck[1]
                k == ck[2]
            IN  \A i, j \in CovIds :
                    Times(c, k, <<i, j>>) =
                        IF i = j THEN Occurs(c, k, i)
                        ELSE IF /\ <<i, j>> \in Keys(c)
                                /\ Occurs(c, k, i) > 0 /\ Occurs(c, k, j) > 0 THEN 1
                        ELSE 0

(***************************************************************************)
(* C22 amended: in bootstrap2 with n1 == n2 each resample includes the     *)
(* auto-pair (i,i) once per occurrence of i in the draw, and each stored   *)
(* cross key (i,j), i # j, once per pair of an occurrence of i and an      *)
(* occurrence of j in the draw: count(i) * count(j) times.                 *)
(***************************************************************************)
C22_CrossPerOccurrence ==
    (method = "bootstrap2" /\ Returned) =>
        \A ck \in SquareResamples :
            LET c == ck[1]
                k == ck[2]
            IN  \A i, j \in CovIds :
                    Times(c, k, <<i, j>>) =
                        IF i = j THEN Occurs(c, k, i)
                        ELSE IF <<i, j>> \in Keys(c)
                        THEN Occurs(c, k, i) * Occurs(c, k, j)
                        ELSE 0

\* bootstrap2 on three patches with every pair stored: patch 0 was drawn
\* twice and patch 1 once, and the resample holds (0,0) twice and (0,1)
\* twice.
C22_Witness ==
    /\ method = "bootstrap2" /\ Returned /\ Len(corrs) = 1
    /\ Keys(1) = (0..2) \X (0..2)
    /\ Occurs(1, 1, 0) = 2 /\ Occurs(1, 1, 1) = 1
    /\ Times(1, 1, <<0, 0>>) = 2 /\ Times(1, 1, <<0, 1>>) = 2
    /\ Times(1, 1, <<1, 1>>) = 1 /\ Times(1, 1, <<2, 2>>) = 0

(***************************************************************************)
(* Vocabulary of the properties of the jackknife covariance.               *)
(***************************************************************************)
\* The number of patches of the call: that of the first object.
Npatch == Max(N1(1), N2(1))

\* The enumerations of the patches: the permutations of the patch numbers
\* that map the patches 0..npatch-1 of the call onto themselves.
Enumerations ==
    {f \in [CovIds -> CovIds] :
        /\ \A a, b \in CovIds : a # b => f[a] # f[b]
        /\ \A a \in CovIds : a < Npatch <=> f[a] < Npatch}

\* The key p with its patches renumbered by f; the index of an axis with a
\* single patch is kept.
Renumbered(keys, f, p) ==
    <<IF Cardinality(FirstNums(keys)) = 1 THEN p[1] ELSE f[p[1]],
      IF Cardinality(SecondNums(keys)) = 1 THEN p[2] ELSE f[p[2]]>>

\* The objects with their patches renumbered by f: the same stored results
\* under the renumbered keys.
Reordered(cs, f) ==
    [c \in 1..Len(cs) |->
        LET keys == DOMAIN cs[c].results
        IN  [cs[c] EXCEPT !.results =
                [q \in {Renumbered(keys, f, p) : p \in keys} |->
                    cs[c].results[CHOOSE p \in keys : Renumbered(keys, f, p) = q]]]]

Symmetric(C) == \A a \in 1..Len(C) : \A b \in 1..Len(C) : C[a][b] = C[b][a]

(***************************************************************************)
(* C23: for a results store with n1 == n2 == npatch, jackknife sample i,   *)
(* i in 0..npatch-1, sums exactly the stored keys (j,k) with j # i and     *)
(* k # i, each once; when one axis has a single patch, sample i sums the   *)
(* keys whose other-axis index is not i, the singleton index being 0.  The *)
(* covariance is symmetric and is the same whatever the order in which the *)
(* patches are enumerated.                                                 *)
(***************************************************************************)
C23_JackknifeByStoredKeys ==
    (method = "jackknife" /\ Returned) =>
        /\ \A c \in Objects :
              /\ Len(cov.vpairs[c]) = Npatch
              /\ \A s \in 1..Npatch :
                    cov.vpairs[c][s] =
                        IF N1(c) = N2(c)
                        THEN SetBag({p \in Keys(c) : p[1] # s - 1 /\ p[2] # s - 1})
                        ELSE IF N2(c) = 1
                        THEN SetBag({p \in Keys(c) : p[1] # s - 1 /\ p[2] = 0})
                        ELSE SetBag({p \in Keys(c) : p[2] # s - 1 /\ p[1] = 0})
        /\ Symmetric(cov.C)
        /\ \A f \in Enumerations : CovJackknife(Reordered(corrs, f)).C = cov.C

\* The same statement for the lists in which no object has a missing patch
\* entry: it holds of every such list.
JackknifeByStoredKeys_NoGap ==
    (\A k \in Objects : ~HasGap(k)) => C23_JackknifeByStoredKeys

\* The jackknife covariance of two objects with one stored key each, (0,0)
\* and (1,1): a matrix is returned, and the one sample of the second
\* object sums no key, although its key (1,1) has no index 0.
C23_Witness ==
    /\ method = "jackknife" /\ Returned /\ Len(corrs) = 2
    /\ Keys(1) = {<<0, 0>>} /\ Keys(2) = {<<1, 1>>}
    /\ Len(cov.vpairs[2]) = 1 /\ cov.vpairs[2][1] = NoKeys

(***************************************************************************)
(* C24 as stated: for bin_type TwoD the half-bin offset ensures that no    *)
(* grid cell is centered at the origin: for every resolved nbins, odd or   *)
(* even, no cell has nominal separation exactly 0, so no cell's            *)
(* log-separation is -infinity.                                            *)
(***************************************************************************)
C24_NoCellAtOrigin ==
    (Constructed /\ BinType = "TwoD") => LogrNegInf(corr) = {}

(***************************************************************************)
(* C24 amended: for bin_type TwoD with an even resolved nbins no cell is   *)
(* centered at the origin; with an odd nbins the central cell, and no      *)
(* other, has dx = dy = 0, nominal separation 0 and log-separation         *)
(* -infinity.                                                              *)
(***************************************************************************)
C24_OriginCellIffOdd ==
    (Constructed /\ BinType = "TwoD") =>
        LET n == corr.nbins
            mid == (n + 1) \div 2
        IN  /\ LogrNegInf(corr) = IF n % 2 = 1 THEN {<<mid, mid>>} ELSE {}
            /\ n % 2 = 1 => corr.dx[mid][mid] = RZero /\ corr.dy[mid][mid] = RZero

\* A TwoD grid of 3 x 3 cells: the central cell is at the origin.
C24_Witness ==
    /\ Constructed /\ BinType = "TwoD" /\ corr.nbins = 3
    /\ corr.dx[2][2] = RZero /\ corr.dy[2][2] = RZero
    /\ LogrNegInf(corr) = {<<2, 2>>}

(***************************************************************************)
(* Vocabulary of the properties of _get_minmax_size.                       *)
(***************************************************************************)
\* a <= b for two rationals, common factors cancelled before multiplying.
NumLe(a, b) ==
    LET g == Gcd(Abs(a[1]), Abs(b[1]))
        h == Gcd(a[2], b[2])
    IN  g = 0 \/ (a[1] \div g) * (b[2] \div h) <= (b[1] \div g) * (a[2] \div h)

\* x <= y for two sizes, decided where the exponents are equal, the signs
\* differ, or both the factors and the exponents are in this order.
SizeLe(x, y) ==
    IF x.ln = y.ln THEN NumLe(x.coef, y.coef)
    ELSE \/ RLe(x.coef, RZero) /\ RLe(RZero, y.coef)
         \/ RLe(RZero, x.coef) /\ NumLe(x.coef, y.coef) /\ RLe(x.ln, y.ln)

ZeroSize == Scaled(RZero, RZero)

\* The step is a call of _get_minmax_size with a new outcome.
SizesStep == sizes' # sizes

\* The call returned (b*min_sep/(2+3b), b*max_sep).
EuclideanSizes(c, s) ==
    /\ Ok(s)
    /\ FMul(s.min_size.coef, FAdd(Two, FMul(Three, c.b))) = FMul(c.b, NatMinSep(c).coef)
    /\ s.min_size.ln = NatMinSep(c).ln
    /\ s.max_size.coef = FMul(c.b, NatMaxSep(c).coef)
    /\ s.max_size.ln = NatMaxSep(c).ln

(***************************************************************************)
(* C25 as stated: _get_minmax_size returns (b*min_sep/(2+3b), b*max_sep)   *)
(* when the current metric is Euclidean, with min_size <= max_size, and    *)
(* returns (0, 0) for every other metric, including when no metric has     *)
(* been set on the object yet.                                             *)
(***************************************************************************)
C25_MinmaxSizeOrdered ==
    [][SizesStep =>
         IF corr.metric = "Euclidean"
         THEN /\ EuclideanSizes(corr, sizes')
              /\ SizeLe(sizes'.min_size, sizes'.max_size)
         ELSE /\ Ok(sizes')
              /\ sizes'.min_size = ZeroSize /\ sizes'.max_size = ZeroSize]_vars

\* The separations of the object are in order and not negative, and b is
\* not negative.
OrderedSeps(c) ==
    /\ RLe(RZero, c.b)
    /\ IF c.bin_type = "Log" THEN RLe(Log(c.min_sep), Log(c.max_sep))
       ELSE RLe(RZero, c.min_sep) /\ RLe(c.min_sep, c.max_sep)

\* The same statement for the objects whose separations are in order: it
\* holds of every call on such an object.
C25_OrderedWhenSepsAre ==
    [][SizesStep =>
         IF corr.metric = "Euclidean"
         THEN /\ EuclideanSizes(corr, sizes')
              /\ OrderedSeps(corr) => SizeLe(sizes'.min_size, sizes'.max_size)
         ELSE /\ Ok(sizes')
              /\ sizes'.min_size = ZeroSize /\ sizes'.max_size = ZeroSize]_vars

\* A TwoD object with min_sep = 1 and a derived max_sep = 1/4, its metric
\* Euclidean: the call returned min_size = 1/7 and max_size = 1/8.
C25_Witness ==
    /\ status = "ok" /\ BinType = "TwoD" /\ corr.metric = "Euclidean"
    /\ corr.min_sep = One /\ corr.max_sep = <<1, 4>> /\ corr.b = Half
    /\ sizes = [min_size |-> Scaled(<<1, 7>>, RZero), max_size |-> Scaled(<<1, 8>>, RZero)]

(***************************************************************************)
(* Vocabulary of the properties of the stored entries.                     *)
(***************************************************************************)
\* The key the step writes, if it stores what it evaluated.
Writes(key) ==
    Evaluates /\ LastEval.stored /\ key = <<LastEval.i, LastEval.j>>

\* The entry the step stores is what one evaluation of the pair gives from
\* a cleared accumulator, with nothing of an earlier pair in it.
StoresPairAlone ==
    (Evaluates /\ LastEval.stored) =>
        /\ LastEval.result \in Outcomes(corr._nbins)
        /\ results'[<<LastEval.i, LastEval.j>>] = LastEval.result

\* The step leaves every entry it does not write as it was.
KeepsOtherEntries ==
    \A key \in (DOMAIN results) \cap (DOMAIN results') :
        ~Writes(key) => results'[key] = results[key]

(***************************************************************************)
(* C26: the entry stored under key (i,j) equals the result of evaluating   *)
(* that patch pair alone: it contains no contribution of a previously      *)
(* evaluated pair (the working accumulator is cleared before each          *)
(* evaluation) and it is not altered by the later evaluation of any other  *)
(* pair (a copy, not the working accumulator, is stored).                  *)
(***************************************************************************)
C26_EntryIsPairAlone ==
    /\ [][StoresPairAlone]_vars
    /\ [][KeepsOtherEntries]_vars

\* A patch run of three evaluations has ended: the entry stored by the
\* first still holds the first result, which has pairs and differs from
\* the results of the two later evaluations.
C26_Witness ==
    /\ pc = "idle" /\ runs = 1 /\ Len(evals) = 3
    /\ evals[1].stored /\ evals[3].stored
    /\ NpSum(evals[1].result.npairs) > 0
    /\ evals[2].result # evals[1].result /\ evals[3].result # evals[1].result
    /\ NpSum(evals[2].result.npairs) > 0 /\ NpSum(evals[3].result.npairs) > 0
    /\ results[<<evals[1].i, evals[1].j>>] = evals[1].result
    /\ results[<<evals[3].i, evals[3].j>>] = evals[3].result

\* The draw used for resample k of object c: bootstrap makes one draw per
\* resample (line 959), bootstrap2 one per object and resample (line 984).
DrawUsed(c, k) ==
    IF method = "bootstrap" THEN cov.draws[k] ELSE cov.draws[c][k]

(***************************************************************************)
(* C27: when estimate_multi_cov is given several objects with the method   *)
(* bootstrap or bootstrap2, resample k uses one and the same draw of       *)
(* npatch patch indices, each in 0..npatch-1, for every object, so each    *)
(* row of the concatenated design matrix is a single resampling of the     *)
(* patches.                                                                *)
(***************************************************************************)
C27_OneDrawPerResample ==
    (method \in {"bootstrap", "bootstrap2"} /\ Returned) =>
        \A k \in 1..Nboot(corrs) :
            \E d \in Indx(Npatch) :
                \A c \in Objects : DrawUsed(c, k) = d

\* The same statement for the method bootstrap alone: it holds of every
\* call.
C27_BootstrapOneDraw ==
    (method = "bootstrap" /\ Returned) =>
        /\ Len(cov.draws) = Nboot(corrs)
        /\ \A k \in 1..Nboot(corrs) : cov.draws[k] \in Indx(Npatch)

\* bootstrap2 on two objects over three patches has returned a matrix; the
\* one resample drew the patches 0, 0, 1 for the first object and 2, 2, 2
\* for the second, and the two parts of the row sum different keys.
C27_Witness ==
    /\ method = "bootstrap2" /\ Returned /\ Len(corrs) = 2
    /\ Keys(1) = (0..2) \X (0..2) /\ Keys(2) = (0..2) \X (0..2)
    /\ cov.draws[1][1] = (0 :> 2) @@ (1 :> 1) @@ (2 :> 0)
    /\ cov.draws[2][1] = (0 :> 0) @@ (1 :> 0) @@ (2 :> 3)
    /\ Times(1, 1, <<0, 0>>) = 2 /\ Times(2, 1, <<0, 0>>) = 0
    /\ Times(2, 1, <<2, 2>>) = 3

====
